---- MODULE Spec2Model ----
(***************************************************************************)
(* A state-machine model of simpletransformers' RetrievalModel             *)
(* (src/simpletransformers/retrieval/retrieval_model.py): the training     *)
(* loop train_model()/train() with its checkpointing, resume and           *)
(* early-stopping bookkeeping, the batch assembly _get_inputs_dict() and   *)
(* the loss engine _calculate_loss().                                      *)
(***************************************************************************)
EXTENDS Integers, Sequences, FiniteSets, TLC

VARIABLES
    args,                            \* self.args: the configuration object
    len_train_dataloader,            \* len(train_dataloader)
    pc,                              \* position of train_model()/train()
    current_epoch,                   \* index of the for loop over train_iterator
    step,                            \* index of the for loop over batch_iterator
    global_step,
    epochs_trained,
    steps_trained_in_current_epoch,
    epoch_number,
    best_eval_metric,
    early_stopping_counter,
    tr_loss,                         \* running loss, in units of 1/gradient_accumulation_steps
    current_loss,                    \* loss.item() of the last forwarded batch, None before
    training_progress_scores,
    scheduler,                       \* number of scheduler.step() calls the scheduler state holds
    files,                           \* the checkpoint directories on disk
    ret,                             \* what train()/train_model() returned or raised
    call,                            \* the arguments of the train_model() call
    run,                             \* bookkeeping of the run: what it did, for the properties
    batch,                           \* input of _get_inputs_dict
    inputs_dict,                     \* output of _get_inputs_dict
    loss_input,                      \* input of _calculate_loss
    retrieval_output,                \* output of _calculate_loss
    eval_call,                       \* the arguments of an evaluate() call
    eval_run,                        \* where the evaluate() call is and what it did
    retrieval,                       \* a retrieve_docs_from_query_embeddings() call
    matching,                        \* one relevance test of compute_metrics()
    prediction                       \* a predict() call

train_vars == <<args, len_train_dataloader, pc, current_epoch, step, global_step,
                epochs_trained, steps_trained_in_current_epoch, epoch_number,
                best_eval_metric, early_stopping_counter, tr_loss, current_loss,
                training_progress_scores, scheduler, files, ret, call, run>>
batch_vars == <<batch, inputs_dict>>
loss_vars  == <<loss_input, retrieval_output>>
eval_vars  == <<eval_call, eval_run, retrieval, matching, prediction>>
vars == <<train_vars, batch_vars, loss_vars, eval_vars>>

---------------------------------------------------------------------------
(* Bounds of the model. *)
MaxLen == 4           \* len(train_dataloader) ranges over 1..MaxLen
MaxGas == 2           \* gradient_accumulation_steps ranges over 1..MaxGas
MaxEpochs == 2        \* num_train_epochs ranges over 1..MaxEpochs
MaxMetric == 2        \* an evaluation's monitored metric ranges over 0..MaxMetric
MaxPatience == 1      \* early_stopping_patience ranges over 0..MaxPatience
MaxDelta == 1         \* early_stopping_delta ranges over 0..MaxDelta
MaxInterval == 2      \* save_steps, evaluate_during_training_steps range over 0..MaxInterval
MaxLoss == 1          \* a batch's loss ranges over 1..MaxLoss
MaxQueries == 3       \* a batch holds 1..MaxQueries queries
MaxNegatives == 2     \* and 1..MaxNegatives hard negatives, when it holds any
MaxLossQueries == 2   \* the batches given to _calculate_loss hold 1..MaxLossQueries queries
MaxLossNegatives == 1 \* and 0..MaxLossNegatives hard negatives
MaxScore == 1         \* a similarity score ranges over 0..MaxScore
MaxLambda == 2        \* nll_lambda and triplet_lambda range over 1..MaxLambda
MaxTextLen == 3       \* a text given to one relevance test holds 0..MaxTextLen characters
MaxEvalQueries == 2   \* an evaluation holds 1..MaxEvalQueries queries
MaxDocs == 2          \* retrieve_n_docs ranges over 1..MaxDocs
MaxRetrievalQueries == 4  \* a retrieval holds 1..MaxRetrievalQueries query embeddings
MaxRetrievalBatch == 3    \* retrieval_batch_size ranges over 1..MaxRetrievalBatch
MaxPredictQueries == 3    \* predict() is given 1..MaxPredictQueries queries
MaxEvalBatch == 2         \* with eval_batch_size in 1..MaxEvalBatch
MaxSteps == 2             \* max_steps ranges over 0..MaxSteps
MaxShortLen == 2          \* len(train_dataloader) of the runs followed event by event

---------------------------------------------------------------------------
(* Python values. *)
None == <<>>
Some(v) == <<v>>
Val(x) == x[1]
\* Python truthiness of an optional number: None and 0 are falsy.
Truthy(x) == x # None /\ Val(x) # 0

Max(a, b) == IF a >= b THEN a ELSE b
Min(a, b) == IF a <= b THEN a ELSE b

---------------------------------------------------------------------------
(* Directory names.  A name is the list of its "-"-separated parts, as     *)
(* str.split("-") yields them; a part is a word or a decimal number.       *)
Word(w) == [word |-> w, num |-> 0]
Num(n) == [word |-> "", num |-> n]
IsInt(part) == part.word = ""

Dir(root, name) == [root |-> root, name |-> name]
\* "checkpoint-{}".format(global_step) under output_dir
CheckpointDir(output_dir, g) == Dir(output_dir, <<Word("checkpoint"), Num(g)>>)
\* "checkpoint-{}-epoch-{}".format(global_step, epoch_number + 1) under output_dir
EpochCheckpointDir(output_dir, g, e) ==
    Dir(output_dir, <<Word("checkpoint"), Num(g), Word("epoch"), Num(e + 1)>>)
\* args.best_model_dir, "outputs/best_model" unless configured otherwise
BestModelDir == Dir(args.output_dir, <<Word("best_model")>>)
\* a directory itself, as the place of the final model
RootDir(root) == Dir(root, <<>>)

\* The files of one checkpoint directory.
EmptyDir == [model |-> None, optimizer_pt |-> FALSE, scheduler_pt |-> None,
             eval_results |-> None]

\* save_model(output_dir, optimizer, scheduler, context_model, query_model, results):
\* fs is the disk before; weights the state of the encoders, sched the scheduler's
\* state; with_optimizer: optimizer and scheduler were passed; with_models: both
\* encoders were passed; results is None or the results that were passed.
SaveModel(fs, output_dir, weights, sched, with_optimizer, with_models, results) ==
    LET old == IF output_dir \in DOMAIN fs THEN fs[output_dir] ELSE EmptyDir
        saving == with_models /\ ~args.no_save
        states == saving /\ with_optimizer /\ args.save_optimizer_and_scheduler
        c1 == IF saving
              THEN [old EXCEPT !.model = Some(weights),
                               !.optimizer_pt = IF states THEN TRUE ELSE @,
                               !.scheduler_pt = IF states THEN Some(sched) ELSE @]
              ELSE old
        c2 == IF results # None THEN [c1 EXCEPT !.eval_results = results] ELSE c1
    IN  IF saving \/ results # None THEN (output_dir :> c2) @@ fs ELSE fs

---------------------------------------------------------------------------
(* Early stopping, as the two evaluation sites of train() write it.        *)

\* "if not best_eval_metric": the first evaluation, and any evaluation that finds a
\* best metric of 0, takes the current metric as the best one and saves it.
InitBest(m, best) ==
    IF ~Truthy(best)
    THEN [best |-> Some(m), saved |-> args.save_best_model]
    ELSE [best |-> best, saved |-> FALSE]

\* The comparison of the current metric with the best one.
Improved(m, best) ==
    IF Truthy(best) /\ args.early_stopping_metric_minimize
    THEN m - Val(best) < args.early_stopping_delta
    ELSE m - Val(best) > args.early_stopping_delta

\* What both sites do with the comparison; enabled is the site's condition for
\* counting a non-improvement.
EarlyStoppingStep(m, best, counter, enabled) ==
    LET b0 == InitBest(m, best) IN
    IF Improved(m, b0.best)
    THEN [best |-> Some(m), counter |-> 0, stop |-> FALSE,
          saved |-> b0.saved \/ args.save_best_model, improved |-> TRUE]
    ELSE IF enabled
         THEN IF counter < args.early_stopping_patience
              THEN [best |-> b0.best, counter |-> counter + 1, stop |-> FALSE,
                    saved |-> b0.saved, improved |-> FALSE]
              ELSE [best |-> b0.best, counter |-> counter, stop |-> TRUE,
                    saved |-> b0.saved, improved |-> FALSE]
         ELSE [best |-> b0.best, counter |-> counter, stop |-> FALSE,
               saved |-> b0.saved, improved |-> FALSE]

\* The evaluation every evaluate_during_training_steps steps.
StepSiteEarlyStopping(m, best, counter) ==
    EarlyStoppingStep(m, best, counter, args.use_early_stopping)

\* An evaluation at the end of an epoch that counts no failure to improve.
EpochSiteWithoutCounting(m, best, counter) ==
    EarlyStoppingStep(m, best, counter, FALSE)
\* The evaluation at the end of an epoch.
EpochSiteEarlyStopping(m, best, counter) ==
    EarlyStoppingStep(m, best, counter,
                      args.use_early_stopping /\ args.early_stopping_consider_epochs)

---------------------------------------------------------------------------
(* train_model() and train().                                              *)

NoReturn == [kind |-> "none", exc |-> "", global_step |-> 0, details |-> None]
Raise(exc) == [kind |-> "raise", exc |-> exc, global_step |-> 0, details |-> None]
\* details: the average loss tr_loss / global_step as the pair of its numerator
\* (in units of 1/gradient_accumulation_steps) and denominator, or the scores.
AverageLoss(loss, g) == [average_loss |-> TRUE, num |-> loss, den |-> g, scores |-> None]
Scores(tps) == [average_loss |-> FALSE, num |-> 0, den |-> 1, scores |-> Some(tps)]
Return(g, details) == [kind |-> "return", exc |-> "", global_step |-> g,
                       details |-> Some(details)]

\* _create_training_progress_scores: one empty column per reported value; the
\* columns beside global_step and train_loss are the keys of the results.
CreateTrainingProgressScores == [global_step |-> <<>>, train_loss |-> <<>>, metric |-> <<>>]

\* An evaluation site that appends no train_loss.
AppendScoresWithoutLoss(tps, g, loss, m) ==
    [global_step |-> Append(tps.global_step, g),
     train_loss |-> tps.train_loss,
     metric |-> Append(tps.metric, m)]
\* training_progress_scores[...].append(...) at an evaluation site
AppendScores(tps, g, loss, m) ==
    [global_step |-> Append(tps.global_step, g),
     train_loss |-> Append(tps.train_loss, loss),
     metric |-> Append(tps.metric, m)]

\* int(checkpoint_suffix) of the last component of args.model_name: None stands
\* for the ValueError of a part that is no number.
CheckpointSuffix(name) ==
    IF Len(name) = 0 THEN Word("")
    ELSE IF Len(name) > 2 THEN name[2] ELSE name[Len(name)]
ParseGlobalStep(name) ==
    LET suffix == CheckpointSuffix(name)
    IN  IF IsInt(suffix) THEN Some(suffix.num) ELSE None

\* "return global_step, tr_loss / global_step if not evaluate_during_training else
\* training_progress_scores" of train(), followed by the rest of train_model():
\* the final save_model(self.args.output_dir, ...) and the return.  The result
\* names the new pc, ret and files.
TrainReturns(where, g, loss, tps, sched, fs) ==
    IF ~args.evaluate_during_training /\ g = 0
    THEN [pc |-> "error", ret |-> Raise("ZeroDivisionError"), files |-> fs]
    ELSE [pc |-> where,
          ret |-> Return(g, IF ~args.evaluate_during_training
                            THEN AverageLoss(loss, g) ELSE Scores(tps)),
          files |-> SaveModel(fs, RootDir(args.output_dir), g, sched,
                              FALSE, TRUE, None)]

\* The gain of metric m over the best metric b in the configured direction.
Gain(m, b) == IF args.early_stopping_metric_minimize THEN b - m ELSE m - b
\* run.best_seen follows the best metric as the specification describes it: the
\* first metric, then every metric that is better than it by more than the delta.
\* An evaluation fails to improve when it is the first one or when its metric is
\* not better than run.best_seen by more than the delta.
FailsToImprove(m) ==
    \/ run.best_seen = None
    \/ Gain(m, Val(run.best_seen)) <= args.early_stopping_delta
BestSeen(m) ==
    IF run.best_seen = None \/ ~FailsToImprove(m) THEN Some(m) ELSE run.best_seen
BestCheckpoint(fs) == IF BestModelDir \in DOMAIN fs THEN Some(fs[BestModelDir]) ELSE None
\* The bookkeeping of one evaluation: m the metric, r the result of the early
\* stopping code, fs0 and fs1 the disk before and after.
Evaluated(site, m, r, g, fs0, fs1) ==
    [run EXCEPT !.evals = @ + 1,
                !.streak = IF FailsToImprove(m) THEN @ + 1 ELSE 0,
                !.best_seen = BestSeen(m),
                !.last = Some([site |-> site, metric |-> m, global_step |-> g,
                               improved |-> r.improved, stop |-> r.stop,
                               best_before |-> best_eval_metric, best_after |-> r.best,
                               counter_before |-> early_stopping_counter,
                               counter_after |-> r.counter,
                               checkpoint_before |-> BestCheckpoint(fs0),
                               checkpoint_after |-> BestCheckpoint(fs1)])]

Metrics == 0..MaxMetric
Losses == 1..MaxLoss

\* The arguments of train_model(): output_dir (None when not given), whether
\* eval_data is given, and the values the monitored metric can take when the
\* model is evaluated on it.
Calls(M) == [output_dir : {None}, eval_data : {TRUE}, eval_metrics : {M}]

\* The names train() and get_scheduler() accept.
Optimizers == {"AdamW", "Adafactor"}
Schedulers == {"constant_schedule", "constant_schedule_with_warmup",
               "linear_schedule_with_warmup", "cosine_schedule_with_warmup",
               "cosine_with_hard_restarts_schedule_with_warmup",
               "polynomial_decay_schedule_with_warmup"}

\* get_scheduler() without its final else: an unknown name builds no scheduler and
\* raises nothing.
NameFailureWithoutElse(a) ==
    IF a.optimizer \notin Optimizers THEN "ValueError" ELSE ""
\* The construction of optimizer and scheduler in train(): the exception an
\* unsupported name raises, "" when both are built.
NameFailure(a) ==
    IF a.optimizer \notin Optimizers THEN "ValueError"
    ELSE IF a.scheduler \notin Schedulers THEN "ValueError"
    ELSE ""

\* The checks of train_model() with the one of the output directory alone.
PassesChecksWithoutEvalData(a, c, occupied) ==
    ~(occupied /\ ~a.overwrite_output_dir)
\* The two checks of train_model(), made before anything else; occupied: the
\* output directory exists and holds files.
PassesChecks(a, c, occupied) ==
    /\ ~(a.evaluate_during_training /\ ~c.eval_data)
    /\ ~(occupied /\ ~a.overwrite_output_dir)

\* An accumulation boundary that steps the scheduler before the optimizer.
BoundaryOpsSchedulerFirst(a) ==
    (IF a.optimizer = "AdamW" THEN <<"clip_grad_norm_">> ELSE <<>>)
        \o <<"scheduler.step", "optimizer.step", "zero_grad", "global_step += 1">>
\* What train() does when (step + 1) % gradient_accumulation_steps == 0.
BoundaryOps(a) ==
    (IF a.optimizer = "AdamW" THEN <<"clip_grad_norm_">> ELSE <<>>)
        \o <<"optimizer.step", "scheduler.step", "zero_grad", "global_step += 1">>

\* An interval that selects every value of global_step.
FiresAlways(interval, g) == interval > 0
\* "interval > 0 and global_step % interval == 0"
Fires(interval, g) == interval > 0 /\ g % interval = 0

\* What train_model() does between its two checks and the call of train().
SetUp == <<"_move_model_to_device", "load_and_cache_examples", "makedirs">>

\* train_model() up to the first epoch of train(): the configuration checks, the
\* optimizer, the restoring of scheduler state and global_step from args.model_name.
TrainModel ==
    /\ pc = "idle"
    /\ LET output_dir == IF call.output_dir = None THEN args.output_dir
                         ELSE Val(call.output_dir)
           occupied == \E d \in DOMAIN files : d.root = output_dir
           steps_per_epoch == len_train_dataloader \div args.gradient_accumulation_steps
           exists == args.model_name # None /\ Val(args.model_name) \in DOMAIN files
           saved == files[Val(args.model_name)]
           loads == exists /\ saved.optimizer_pt /\ saved.scheduler_pt # None
           parsed == IF exists THEN ParseGlobalStep(Val(args.model_name).name) ELSE None
           passes == PassesChecks(args, call, occupied)
           \* args.num_train_epochs is rewritten before the optimizer is built
           with_epochs == IF args.max_steps > 0 /\ steps_per_epoch > 0
                          THEN [args EXCEPT !.num_train_epochs =
                                    args.max_steps \div steps_per_epoch + 1]
                          ELSE args
           failure ==
               IF ~passes THEN "ValueError"
               ELSE IF args.max_steps > 0 /\ steps_per_epoch = 0 THEN "ZeroDivisionError"
               ELSE IF NameFailure(args) # "" THEN NameFailure(args)
               ELSE IF parsed # None /\ steps_per_epoch = 0 THEN "ZeroDivisionError"
               ELSE ""
       IN  IF failure # ""
           THEN /\ pc' = "error"
                /\ ret' = Raise(failure)
                /\ args' = IF passes THEN with_epochs ELSE args
                /\ run' = [run EXCEPT !.stages = IF passes THEN SetUp ELSE <<>>,
                                      !.files_before = files]
                /\ UNCHANGED <<global_step, epochs_trained,
                               steps_trained_in_current_epoch, scheduler,
                               training_progress_scores>>
           ELSE /\ pc' = "epoch"
                /\ ret' = NoReturn
                /\ args' = with_epochs
                /\ scheduler' = IF loads THEN Val(saved.scheduler_pt) ELSE 0
                /\ global_step' = IF parsed # None THEN Val(parsed) ELSE 0
                /\ epochs_trained' =
                       IF parsed # None THEN Val(parsed) \div steps_per_epoch ELSE 0
                /\ steps_trained_in_current_epoch' =
                       IF parsed # None THEN Val(parsed) % steps_per_epoch ELSE 0
                /\ training_progress_scores' =
                       IF args.evaluate_during_training
                       THEN Some(CreateTrainingProgressScores) ELSE None
                /\ run' = [run EXCEPT
                               !.stages = SetUp,
                               !.files_before = files,
                               !.output_dir = output_dir,
                               !.t_total = IF args.max_steps > 0 THEN args.max_steps
                                           ELSE steps_per_epoch * args.num_train_epochs,
                               !.start_step = IF parsed # None THEN Val(parsed) ELSE 0,
                               !.start_scheduler = IF loads THEN Val(saved.scheduler_pt)
                                                   ELSE 0]
    /\ current_epoch' = 0
    /\ step' = 0
    /\ epoch_number' = 0
    /\ best_eval_metric' = None
    /\ early_stopping_counter' = 0
    /\ tr_loss' = 0
    /\ current_loss' = None
    /\ UNCHANGED <<len_train_dataloader, files, call, batch_vars, loss_vars, eval_vars>>

\* The head of "for current_epoch in train_iterator": an epoch the checkpoint
\* already covers is skipped, any other starts its batches.
EpochBegin ==
    /\ pc = "epoch"
    /\ current_epoch < args.num_train_epochs
    /\ IF epochs_trained > 0
       THEN /\ epochs_trained' = epochs_trained - 1
            /\ current_epoch' = current_epoch + 1
            /\ run' = [run EXCEPT !.skipped_epochs = @ + 1,
                                  !.context_training = args.train_context_encoder,
                                  !.query_training = args.train_query_encoder]
            /\ UNCHANGED <<pc, step>>
       ELSE /\ pc' = "batch"
            /\ step' = 0
            /\ run' = [run EXCEPT !.context_training = args.train_context_encoder,
                                  !.query_training = args.train_query_encoder]
            /\ UNCHANGED <<epochs_trained, current_epoch>>
    /\ UNCHANGED <<args, len_train_dataloader, global_step,
                   steps_trained_in_current_epoch, epoch_number, best_eval_metric,
                   early_stopping_counter, tr_loss, current_loss,
                   training_progress_scores, scheduler, files, ret, call,
                   batch_vars, loss_vars, eval_vars>>

\* One iteration of "for step, batch in enumerate(batch_iterator)".
TrainStep ==
    /\ pc = "batch"
    /\ step < len_train_dataloader
    /\ IF steps_trained_in_current_epoch > 0
       THEN /\ steps_trained_in_current_epoch' = steps_trained_in_current_epoch - 1
            /\ step' = step + 1
            /\ run' = [run EXCEPT !.skipped_batches = @ + 1]
            /\ UNCHANGED <<pc, global_step, best_eval_metric, early_stopping_counter,
                           tr_loss, current_loss, training_progress_scores, scheduler,
                           files, ret>>
       ELSE \E loss \in Losses :
            LET boundary == (step + 1) % args.gradient_accumulation_steps = 0
                g == IF boundary THEN global_step + 1 ELSE global_step
                sched == IF boundary THEN scheduler + 1 ELSE scheduler
                total == tr_loss + loss
                logs == boundary /\ Fires(args.logging_steps, g)
                saves == boundary /\ Fires(args.save_steps, g)
                fs1 == IF saves
                       THEN SaveModel(files, CheckpointDir(run.output_dir, g), g, sched,
                                      TRUE, TRUE, None)
                       ELSE files
                evaluates == /\ boundary
                             /\ args.evaluate_during_training
                             /\ Fires(args.evaluate_during_training_steps, g)
                gradients == Append(run.accumulated, <<current_epoch, step>>)
                run1 == [run EXCEPT
                            !.backward = @ + 1,
                            !.optimizer_steps = IF boundary THEN @ + 1 ELSE @,
                            !.scheduler_steps = IF boundary THEN @ + 1 ELSE @,
                            !.ops = IF boundary THEN BoundaryOps(args) ELSE @,
                            !.applied = IF boundary THEN gradients ELSE @,
                            !.accumulated = IF boundary THEN <<>> ELSE gradients,
                            !.logged_at = IF logs THEN Append(@, g) ELSE @,
                            !.saved_at = IF saves THEN Append(@, g) ELSE @,
                            !.evaluated_at = IF evaluates THEN Append(@, g) ELSE @]
            IN  /\ current_loss' = Some(loss)
                /\ tr_loss' = total
                /\ global_step' = g
                /\ scheduler' = sched
                /\ steps_trained_in_current_epoch' = steps_trained_in_current_epoch
                /\ IF ~evaluates
                   THEN /\ files' = fs1
                        /\ step' = step + 1
                        /\ run' = run1
                        /\ UNCHANGED <<pc, best_eval_metric, early_stopping_counter,
                                       training_progress_scores, ret>>
                   ELSE \E m \in call.eval_metrics :
                        LET fs2 == IF args.save_eval_checkpoints
                                   THEN SaveModel(fs1, CheckpointDir(run.output_dir, g),
                                                  g, sched, TRUE, TRUE, Some(m))
                                   ELSE fs1
                            tps == AppendScores(Val(training_progress_scores), g, loss, m)
                            r == StepSiteEarlyStopping(m, best_eval_metric,
                                                       early_stopping_counter)
                            fs3 == IF r.saved
                                   THEN SaveModel(fs2, BestModelDir, g, sched,
                                                  TRUE, TRUE, Some(m))
                                   ELSE fs2
                            t == TrainReturns("stopped", g, total, tps, sched, fs3)
                        IN  /\ training_progress_scores' = Some(tps)
                            /\ best_eval_metric' = r.best
                            /\ early_stopping_counter' = r.counter
                            \* eval_model() leaves both encoders in evaluation mode;
                            \* unless train() returns, both are put in training mode
                            /\ run' = LET e == Evaluated("step", m, r, g, files, fs3)
                                      IN  [run1 EXCEPT !.evals = e.evals,
                                                       !.streak = e.streak,
                                                       !.best_seen = e.best_seen,
                                                       !.last = e.last,
                                                       !.context_training = ~r.stop,
                                                       !.query_training = ~r.stop]
                            /\ IF r.stop
                               THEN /\ pc' = t.pc
                                    /\ ret' = t.ret
                                    /\ files' = t.files
                                    /\ step' = step
                               ELSE /\ files' = fs3
                                    /\ step' = step + 1
                                    /\ UNCHANGED <<pc, ret>>
    /\ UNCHANGED <<args, len_train_dataloader, current_epoch, epochs_trained,
                   epoch_number, call, batch_vars, loss_vars, eval_vars>>

\* The end of an epoch: the epoch checkpoint and the evaluation of the epoch.
EpochEnd ==
    /\ pc = "batch"
    /\ step >= len_train_dataloader
    /\ LET e == epoch_number + 1
           dir == EpochCheckpointDir(run.output_dir, global_step, e)
           fs0 == IF (args.save_model_every_epoch \/ args.evaluate_during_training)
                     /\ dir \notin DOMAIN files
                  THEN (dir :> EmptyDir) @@ files
                  ELSE files
           fs1 == IF args.save_model_every_epoch
                  THEN SaveModel(fs0, dir, global_step, scheduler, TRUE, TRUE, None)
                  ELSE fs0
       IN  /\ epoch_number' = e
           /\ IF ~(args.evaluate_during_training /\ args.evaluate_each_epoch)
              THEN /\ files' = fs1
                   /\ pc' = "epoch"
                   /\ current_epoch' = current_epoch + 1
                   /\ UNCHANGED <<best_eval_metric, early_stopping_counter,
                                  training_progress_scores, ret, run>>
              ELSE \E m \in call.eval_metrics :
                   LET fs2 == IF args.save_eval_checkpoints
                              THEN SaveModel(fs1, dir, global_step, scheduler,
                                             TRUE, FALSE, Some(m))
                              ELSE fs1
                   IN  IF current_loss = None
                       THEN \* training_progress_scores["train_loss"].append(current_loss)
                            /\ pc' = "error"
                            /\ ret' = Raise("UnboundLocalError")
                            /\ files' = fs2
                            /\ training_progress_scores' =
                                   Some([Val(training_progress_scores) EXCEPT
                                            !.global_step = Append(@, global_step)])
                            /\ run' = [run EXCEPT !.context_training = FALSE,
                                                  !.query_training = FALSE]
                            /\ UNCHANGED <<current_epoch, best_eval_metric,
                                           early_stopping_counter>>
                       ELSE LET tps == AppendScores(Val(training_progress_scores),
                                                    global_step, Val(current_loss), m)
                                r == EpochSiteEarlyStopping(m, best_eval_metric,
                                                            early_stopping_counter)
                                fs3 == IF r.saved
                                       THEN SaveModel(fs2, BestModelDir, global_step,
                                                      scheduler, TRUE, TRUE, Some(m))
                                       ELSE fs2
                                t == TrainReturns("stopped", global_step, tr_loss, tps,
                                                  scheduler, fs3)
                            IN  /\ training_progress_scores' = Some(tps)
                                /\ best_eval_metric' = r.best
                                /\ early_stopping_counter' = r.counter
                                /\ run' = [Evaluated("epoch", m, r, global_step, files,
                                                     fs3) EXCEPT
                                               !.context_training = FALSE,
                                               !.query_training = FALSE]
                                /\ IF r.stop
                                   THEN /\ pc' = t.pc
                                        /\ ret' = t.ret
                                        /\ files' = t.files
                                        /\ UNCHANGED current_epoch
                                   ELSE /\ pc' = "epoch"
                                        /\ files' = fs3
                                        /\ current_epoch' = current_epoch + 1
                                        /\ UNCHANGED ret
    /\ UNCHANGED <<args, len_train_dataloader, step, global_step, epochs_trained,
                   steps_trained_in_current_epoch, tr_loss, current_loss, scheduler,
                   call, batch_vars, loss_vars, eval_vars>>

\* The epochs are over: train() returns and train_model() saves the final model.
Finish ==
    /\ pc = "epoch"
    /\ current_epoch >= args.num_train_epochs
    /\ LET t == TrainReturns("done", global_step, tr_loss,
                             IF training_progress_scores = None
                             THEN CreateTrainingProgressScores
                             ELSE Val(training_progress_scores),
                             scheduler, files)
       IN  /\ pc' = t.pc
           /\ ret' = t.ret
           /\ files' = t.files
    /\ UNCHANGED <<args, len_train_dataloader, current_epoch, step, global_step,
                   epochs_trained, steps_trained_in_current_epoch, epoch_number,
                   best_eval_metric, early_stopping_counter, tr_loss, current_loss,
                   training_progress_scores, scheduler, call, run,
                   batch_vars, loss_vars, eval_vars>>

---------------------------------------------------------------------------
(* Configurations and initial states.                                      *)

\* The arguments as RetrievalArgs sets them unless the caller changes them; the
\* intervals are off and the run saves no checkpoint beside the final model.
DefaultArgs ==
    [num_train_epochs |-> 1, gradient_accumulation_steps |-> 1, max_steps |-> 0,
     optimizer |-> "AdamW", scheduler |-> "linear_schedule_with_warmup",
     output_dir |-> "outputs", model_name |-> None,
     overwrite_output_dir |-> FALSE, no_save |-> FALSE,
     save_steps |-> 0, save_model_every_epoch |-> FALSE, save_eval_checkpoints |-> TRUE,
     save_optimizer_and_scheduler |-> TRUE, save_best_model |-> TRUE,
     evaluate_during_training |-> FALSE, evaluate_during_training_steps |-> 0,
     evaluate_each_epoch |-> TRUE, use_early_stopping |-> FALSE,
     early_stopping_consider_epochs |-> FALSE, early_stopping_metric_minimize |-> TRUE,
     early_stopping_patience |-> 0, early_stopping_delta |-> 0,
     hard_negatives |-> FALSE, hard_negatives_in_eval |-> FALSE, unified_rr |-> FALSE,
     include_triplet_loss |-> FALSE, include_hard_negatives_for_triplets_only |-> FALSE,
     include_bce_loss |-> FALSE, include_nll_loss |-> TRUE,
     nll_lambda |-> 1, triplet_lambda |-> 1,
     retrieve_n_docs |-> 1, eval_batch_size |-> 1, retrieval_batch_size |-> 1,
     logging_steps |-> 0, train_context_encoder |-> TRUE, train_query_encoder |-> TRUE]

\* The sizes of a run.
WithSizes(A) ==
    { [a EXCEPT !.num_train_epochs = e, !.gradient_accumulation_steps = k] :
          a \in A, e \in 1..MaxEpochs, k \in 1..MaxGas }

\* The settings of evaluation during training and of early stopping.
WithEarlyStopping(A) ==
    { [a EXCEPT !.use_early_stopping = TRUE,
                !.early_stopping_consider_epochs = c,
                !.early_stopping_patience = p] :
          a \in A, c \in BOOLEAN, p \in 0..MaxPatience }
WithEvaluation(A) ==
    LET E == { [a EXCEPT !.evaluate_during_training = TRUE,
                         !.evaluate_during_training_steps = n,
                         !.evaluate_each_epoch = ee,
                         !.early_stopping_metric_minimize = mini,
                         !.early_stopping_delta = d,
                         !.save_best_model = sb] :
                   a \in A, n \in 0..MaxInterval, ee \in BOOLEAN, mini \in BOOLEAN,
                   d \in 0..MaxDelta, sb \in BOOLEAN }
    IN  E \cup WithEarlyStopping(E)

\* The settings of checkpointing.
WithCheckpoints(A) ==
    { [a EXCEPT !.save_steps = n, !.save_model_every_epoch = se,
                !.save_optimizer_and_scheduler = so, !.overwrite_output_dir = TRUE] :
          a \in A, n \in 0..MaxInterval, se \in BOOLEAN, so \in BOOLEAN }

NewRun == [output_dir |-> "", t_total |-> 0, start_step |-> 0, start_scheduler |-> 0,
           resumed |-> FALSE, first_final |-> None, resumed_from |-> None,
           skipped_epochs |-> 0, skipped_batches |-> 0,
           backward |-> 0, optimizer_steps |-> 0,
           evals |-> 0, streak |-> 0, best_seen |-> None, last |-> None,
           stages |-> <<>>, files_before |-> <<>>,
           \* the operations of the last accumulation boundary, in their order
           ops |-> <<>>,
           \* the batches whose gradients the encoders hold, as <<epoch, step>>, and
           \* the batches whose gradients the last optimizer step applied
           accumulated |-> <<>>, applied |-> <<>>,
           scheduler_steps |-> 0,
           \* the values of global_step at which the loss was logged, a checkpoint
           \* saved and the model evaluated by the interval logic
           logged_at |-> <<>>, saved_at |-> <<>>, evaluated_at |-> <<>>,
           \* module.training of the encoders, which a loaded model has off
           context_training |-> FALSE, query_training |-> FALSE]

\* The state after construction, before train_model() is called.
TrainInit(A, F, C) ==
    /\ args \in A
    /\ len_train_dataloader \in 1..MaxLen
    /\ call \in C
    /\ files = F
    /\ pc = "idle"
    /\ current_epoch = 0
    /\ step = 0
    /\ global_step = 0
    /\ epochs_trained = 0
    /\ steps_trained_in_current_epoch = 0
    /\ epoch_number = 0
    /\ best_eval_metric = None
    /\ early_stopping_counter = 0
    /\ tr_loss = 0
    /\ current_loss = None
    /\ training_progress_scores = None
    /\ scheduler = 0
    /\ ret = NoReturn
    /\ run = NewRun

NoFiles == <<>>

BatchIdle == batch = None /\ inputs_dict = None
LossIdle == loss_input = None /\ retrieval_output = None
EvalIdle ==
    /\ eval_call = None /\ eval_run = None /\ retrieval = None /\ matching = None
    /\ prediction = None

\* Training with evaluation and early stopping, from a fresh model.
Init == TrainInit(WithSizes({DefaultArgs}) \cup WithEvaluation(WithSizes({DefaultArgs})),
                  NoFiles, Calls(Metrics))
        /\ BatchIdle /\ LossIdle /\ EvalIdle
Next == TrainModel \/ EpochBegin \/ TrainStep \/ EpochEnd \/ Finish
Spec == Init /\ [][Next]_vars

---------------------------------------------------------------------------
(* Configurations train_model() or train() may reject: optimizer and        *)
(* scheduler names, evaluation during training without eval_data, an         *)
(* output directory that already holds files.                                *)
WithNames(A) ==
    { [a EXCEPT !.optimizer = o, !.scheduler = sc, !.evaluate_during_training = e,
                !.evaluate_during_training_steps = IF e THEN 1 ELSE 0,
                !.overwrite_output_dir = ow] :
          a \in A, o \in Optimizers \cup {"SGD"},
          sc \in {"linear_schedule_with_warmup", "exponential"},
          e \in BOOLEAN, ow \in BOOLEAN }
\* an output directory that holds the model of an earlier run
OldFiles == RootDir(DefaultArgs.output_dir) :> [EmptyDir EXCEPT !.model = Some(0)]
ConfigCalls == [output_dir : {None}, eval_data : BOOLEAN, eval_metrics : {{MaxMetric}}]

InitConfig ==
    /\ \E F \in {NoFiles, OldFiles} :
           TrainInit(WithNames(WithSizes({DefaultArgs})), F, ConfigCalls)
    /\ BatchIdle /\ LossIdle /\ EvalIdle
SpecConfig == InitConfig /\ [][Next]_vars

---------------------------------------------------------------------------
(* Resuming: a run that completed left its checkpoints on disk; a new model *)
(* is constructed from one of them and train_model() is called again with   *)
(* the same arguments and the same data.                                    *)
Resume ==
    /\ pc = "done"
    /\ ~run.resumed
    /\ \E d \in DOMAIN files :
          /\ d # RootDir(args.output_dir)
          /\ args' = [args EXCEPT !.model_name = Some(d)]
          /\ run' = [NewRun EXCEPT !.resumed = TRUE,
                                   !.first_final = Some(global_step),
                                   !.resumed_from = Some(files[d])]
    /\ pc' = "idle"
    /\ current_epoch' = 0
    /\ step' = 0
    /\ global_step' = 0
    /\ epochs_trained' = 0
    /\ steps_trained_in_current_epoch' = 0
    /\ epoch_number' = 0
    /\ best_eval_metric' = None
    /\ early_stopping_counter' = 0
    /\ tr_loss' = 0
    /\ current_loss' = None
    /\ training_progress_scores' = None
    /\ scheduler' = 0
    /\ ret' = NoReturn
    /\ UNCHANGED <<len_train_dataloader, files, call, batch_vars, loss_vars, eval_vars>>

\* The settings under which a run leaves a best checkpoint.
WithBestModel(A) ==
    { [a EXCEPT !.evaluate_during_training = TRUE,
                !.evaluate_during_training_steps = n,
                !.evaluate_each_epoch = ee] :
          a \in A, n \in 0..1, ee \in BOOLEAN }

\* Training with checkpoints, then training again from one of them.
InitResume ==
    /\ TrainInit(LET A == WithCheckpoints(WithSizes({DefaultArgs}))
                 IN  A \cup WithBestModel(A), NoFiles, Calls({MaxMetric}))
    /\ BatchIdle /\ LossIdle /\ EvalIdle
NextResume == Next \/ Resume
SpecResume == InitResume /\ [][NextResume]_vars

---------------------------------------------------------------------------
(* The claims about early stopping and the best checkpoint.                *)

Running == pc \in {"epoch", "batch", "done", "stopped"}
LastEvaluation == Val(run.last)

\* C1: with early stopping enabled and direction = maximize, training terminates
\* exactly after the (patience+1)-th consecutive evaluation that fails to improve
\* on the best-seen value, not earlier and not later, and returns the global_step
\* of that evaluation.  The evaluations are those of the per-step site; the first
\* evaluation of a run counts as one that fails to improve.
C1_StopsExactlyAfterPatience ==
    (/\ Running
     /\ args.evaluate_during_training
     /\ args.use_early_stopping
     /\ ~args.early_stopping_metric_minimize
     /\ ~args.evaluate_each_epoch)
    => /\ pc = "stopped" =>
              /\ run.streak = args.early_stopping_patience + 1
              /\ ret.kind = "return"
              /\ ret.global_step = LastEvaluation.global_step
       /\ run.streak >= args.early_stopping_patience + 1 => pc = "stopped"

\* C2: an evaluation is judged an improvement only when its metric is better than
\* the best-seen value in the configured direction by the delta, and the recorded
\* best metric never becomes worse in the configured direction.
C2_ImprovementIsBetterByDelta ==
    (Running /\ run.last # None /\ LastEvaluation.best_before # None)
    => /\ LastEvaluation.improved =>
              Gain(LastEvaluation.metric, Val(LastEvaluation.best_before))
                  >= args.early_stopping_delta
       /\ Gain(Val(LastEvaluation.best_after), Val(LastEvaluation.best_before)) >= 0

\* C3: after an evaluation judged an improvement the best metric is that
\* evaluation's metric, the patience counter is 0 and (with save_best_model) the
\* best checkpoint holds that evaluation's model and results; after any other
\* evaluation but the first the best metric and the best checkpoint are unchanged;
\* hence the best checkpoint holds the results whose metric is the recorded best.
C3_BestCheckpointFollowsImprovement ==
    (Running /\ run.last # None)
    => /\ LastEvaluation.improved =>
              /\ LastEvaluation.best_after = Some(LastEvaluation.metric)
              /\ LastEvaluation.counter_after = 0
              /\ args.save_best_model =>
                     /\ LastEvaluation.checkpoint_after # None
                     /\ Val(LastEvaluation.checkpoint_after).eval_results
                            = Some(LastEvaluation.metric)
                     /\ Val(LastEvaluation.checkpoint_after).model
                            = Some(LastEvaluation.global_step)
       /\ (~LastEvaluation.improved /\ LastEvaluation.best_before # None) =>
              /\ LastEvaluation.best_after = LastEvaluation.best_before
              /\ LastEvaluation.checkpoint_after = LastEvaluation.checkpoint_before
       /\ (args.save_best_model /\ BestCheckpoint(files) # None) =>
              Val(BestCheckpoint(files)).eval_results = best_eval_metric

\* C6: a run that passes the configuration checks ends in normal completion or in
\* early-stopping termination, and in both returns (global_step, details), details
\* being tr_loss / global_step without evaluate_during_training and the metric
\* history with it; also when the run performs no optimizer step.  Every
\* configuration of Spec passes the checks of train_model().
C6_EndsByReturning ==
    /\ pc # "error"
    /\ pc \in {"done", "stopped"} =>
          /\ ret.kind = "return"
          /\ ret.global_step = global_step
          /\ ret.details =
                 Some(IF args.evaluate_during_training
                      THEN Scores(Val(training_progress_scores))
                      ELSE AverageLoss(tr_loss, global_step))

---------------------------------------------------------------------------
(* The claims about resuming from a checkpoint.                            *)

ResumedFrom == Val(run.resumed_from)
ResumedName == Val(args.model_name).name
\* the run was resumed from a directory named checkpoint-G or checkpoint-G-epoch-E
ResumedFromLoopCheckpoint ==
    /\ run.resumed
    /\ pc # "idle"
    /\ Len(ResumedName) >= 2
    /\ ResumedName[1] = Word("checkpoint")
StepsPerEpoch == len_train_dataloader \div args.gradient_accumulation_steps

\* C4: resuming from a checkpoint the loop wrote at global step G restores
\* global_step = G, skips exactly the whole epochs and then exactly the batches of
\* the current epoch that the first G optimizer steps consumed, and completes at
\* the final global_step of the uninterrupted run, for every
\* gradient_accumulation_steps >= 1.
C4_ResumeSkipsWhatWasConsumed ==
    (ResumedFromLoopCheckpoint /\ StepsPerEpoch >= 1)
    => LET G == ResumedName[2].num IN
       /\ pc # "error"
       /\ run.start_step = G
       /\ pc = "done" =>
              /\ run.skipped_epochs = Min(G \div StepsPerEpoch, args.num_train_epochs)
              /\ (G \div StepsPerEpoch < args.num_train_epochs =>
                      run.skipped_batches
                          = (G % StepsPerEpoch) * args.gradient_accumulation_steps)
              /\ global_step = Val(run.first_final)

\* C5: starting train() from a checkpoint saved with optimizer and scheduler state
\* at global step G yields global_step = G and the scheduler step count of the
\* time of saving; the two are never restored one without the other.
C5_RoundTripRestoresStepAndScheduler ==
    (/\ run.resumed
     /\ pc \in {"epoch", "batch", "done", "stopped"}
     /\ ResumedFrom.model # None
     /\ ResumedFrom.optimizer_pt
     /\ ResumedFrom.scheduler_pt # None)
    => /\ run.start_step = Val(ResumedFrom.model)
       /\ run.start_scheduler = Val(ResumedFrom.scheduler_pt)

---------------------------------------------------------------------------
(* _get_inputs_dict(batch, evaluate).                                      *)

Positive(i) == [kind |-> "positive", of |-> i]
HardNegative(j) == [kind |-> "hard_negative", of |-> j]

RandPerm(n) == { p \in [1..n -> 1..n] : \A i \in 1..n : \E j \in 1..n : p[j] = i }

\* batch["context_ids"] and batch["hard_negative_ids"]: row i of the positives is
\* the positive context of query i.
ContextIds(b) == [i \in 1..b.n |-> Positive(i)]
HardNegativeIds(b) == [j \in 1..b.hard_negatives |-> HardNegative(j)]

\* The pairs of the reranker, one for every query and every reranking context.
RerankingInput(b) == [k \in 1..(b.n * b.n) |-> <<((k - 1) \div b.n) + 1, ((k - 1) % b.n) + 1>>]

\* The result for the permutation torch.randperm draws (shuffled_indices, used in
\* evaluation only).  Labels are column indices, counted from 0.
InputsDict(b, shuffled_indices) ==
    LET labels == [i \in 1..b.n |-> i - 1]
        training_contexts == IF args.hard_negatives
                             THEN ContextIds(b) \o HardNegativeIds(b)
                             ELSE ContextIds(b)
        shuffled_labels == [i \in 1..b.n |-> labels[shuffled_indices[i]]]
        shuffled_contexts == [i \in 1..b.n |-> ContextIds(b)[shuffled_indices[i]]]
        evaluation_contexts == IF args.hard_negatives /\ args.hard_negatives_in_eval
                               THEN shuffled_contexts \o HardNegativeIds(b)
                               ELSE shuffled_contexts
        bce == b.hf_dataset_with_labels /\ args.include_bce_loss
    IN  IF ~b.evaluate /\ args.unified_rr
        THEN [context_input |-> training_contexts,
              query_input |-> [i \in 1..b.n |-> i],
              labels |-> labels, bce_labels |-> FALSE,
              reranking_input |-> Some(RerankingInput(b))]
        ELSE [context_input |-> IF b.evaluate THEN evaluation_contexts
                                ELSE training_contexts,
              query_input |-> [i \in 1..b.n |-> i],
              labels |-> IF b.evaluate THEN shuffled_labels ELSE labels,
              bce_labels |-> bce,
              reranking_input |-> None]

GetInputsDict ==
    /\ batch # None
    /\ inputs_dict = None
    /\ \E shuffled_indices \in RandPerm(Val(batch).n) :
          inputs_dict' = Some(InputsDict(Val(batch), shuffled_indices))
    /\ UNCHANGED <<train_vars, batch, loss_vars, eval_vars>>

\* The arguments _get_inputs_dict reads.
WithBatchSettings(A) ==
    { [a EXCEPT !.hard_negatives = hn, !.hard_negatives_in_eval = he,
                !.unified_rr = u, !.include_bce_loss = bce] :
          a \in A, hn \in BOOLEAN, he \in BOOLEAN, u \in BOOLEAN, bce \in BOOLEAN }

\* A batch holds hard negatives exactly when args.hard_negatives asks for them.
Batches ==
    { b \in [n : 1..MaxQueries, hard_negatives : 0..MaxNegatives, evaluate : BOOLEAN,
             hf_dataset_with_labels : BOOLEAN] :
          (b.hard_negatives > 0) = args.hard_negatives }

InitBatch ==
    /\ TrainInit(WithBatchSettings({DefaultArgs}), NoFiles, Calls(Metrics))
    /\ len_train_dataloader = 1
    /\ batch \in { Some(b) : b \in Batches }
    /\ inputs_dict = None
    /\ LossIdle /\ EvalIdle
NextBatch == GetInputsDict
SpecBatch == InitBatch /\ [][NextBatch]_vars

\* the column at which query i's own positive context sits, counted from 0
ColumnOfPositive(contexts, i) ==
    (CHOOSE c \in 1..Len(contexts) : contexts[c] = Positive(i)) - 1

\* C7: for every batch _get_inputs_dict produces, in training and in evaluation,
\* with or without hard negatives, label[i] is the column index of query i's own
\* positive context in the context matrix; a training batch of N queries without
\* hard negatives has N contexts and labels [0..N-1].
C7_LabelIsColumnOfPositive ==
    inputs_dict # None
    => LET out == Val(inputs_dict)
           b == Val(batch)
       IN  /\ Len(out.labels) = b.n
           /\ \A i \in 1..b.n :
                 out.labels[i] = ColumnOfPositive(out.context_input, i)
           /\ (~b.evaluate /\ ~args.hard_negatives) =>
                 /\ Len(out.context_input) = b.n
                 /\ out.labels = [i \in 1..b.n |-> i - 1]

---------------------------------------------------------------------------
(* _calculate_loss().  The encoders are opaque: an input names the            *)
(* similarity matrix they produce, S[i][j] = dot(query i, context j), over   *)
(* the positives followed by the hard negatives.  A loss is a combination of *)
(* the component losses, named by their coefficients.                        *)

NoLoss == [nll |-> 0, triplet |-> 0, bce |-> 0, reranking |-> 0]
Nll(k) == [NoLoss EXCEPT !.nll = k]
Triplet(k) == [NoLoss EXCEPT !.triplet = k]
Bce(k) == [NoLoss EXCEPT !.bce = k]
Reranking(k) == [NoLoss EXCEPT !.reranking = k]
Plus(a, b) == [nll |-> a.nll + b.nll, triplet |-> a.triplet + b.triplet,
               bce |-> a.bce + b.bce, reranking |-> a.reranking + b.reranking]

\* torch.max(softmax_score, 1): the index (from 0) of the first maximal value of a
\* row; log_softmax keeps the order of a row's values.
ArgMax(row) ==
    (CHOOSE j \in 1..Len(row) :
        /\ \A k \in 1..Len(row) : row[k] <= row[j]
        /\ \A k \in 1..(j - 1) : row[k] < row[j]) - 1

\* (max_idxs == torch.tensor(nll_labels)).sum()
CorrectPredictionsCount(score, labels) ==
    Cardinality({ i \in 1..Len(labels) : ArgMax(score[i]) = labels[i] })

\* torch.nn.TripletMarginLoss on anchors, positives and negatives of n, n and m
\* rows: the rows are paired, which fails unless the counts agree or one is 1; no
\* rows give the mean of nothing.
TripletCriterion(n, m) ==
    IF m = 0 THEN (IF n = 1 THEN "nan" ELSE "RuntimeError")
    ELSE IF n = m \/ n = 1 \/ m = 1 THEN "value"
    ELSE "RuntimeError"

\* The first n columns of every row: query_outputs against positive_context_outputs.
PositivesOnly(score, n) == [i \in 1..Len(score) |-> SubSeq(score[i], 1, n)]

Raised(exc, loss, triplet) ==
    [kind |-> "raise", exc |-> exc, loss |-> loss, triplet_computed |-> triplet,
     correct_predictions_count |-> 0, correct_predictions_percentage |-> None]
\* correct_predictions_percentage is count / len(nll_labels) * 100, kept as the
\* pair of 100 * count and len(nll_labels).
Returned(loss, triplet, count, n) ==
    [kind |-> "return", exc |-> "", loss |-> Some(loss), triplet_computed |-> triplet,
     correct_predictions_count |-> count,
     correct_predictions_percentage |-> Some(<<100 * count, n>>)]

\* The result of _calculate_loss on input x: the RetrievalOutput it returns or the
\* exception it raises, with the loss it had computed by then.
CalculateLoss(x) ==
    LET n == x.n
        m == Len(x.similarity[1]) - n
    IN
    IF args.include_triplet_loss
    THEN LET score == IF args.include_hard_negatives_for_triplets_only
                      THEN PositivesOnly(x.similarity, n) ELSE x.similarity
             triplet == IF x.training THEN TripletCriterion(n, m)
                        ELSE "none"
             loss == IF x.training
                     THEN Plus(Nll(args.nll_lambda), Triplet(args.triplet_lambda))
                     ELSE Nll(1)
         IN  IF x.bce_labels THEN Raised("TypeError", None, FALSE)
             ELSE IF triplet = "RuntimeError" THEN Raised("RuntimeError", None, TRUE)
             \* reranking_loss is assigned on no path of this branch
             ELSE Raised("UnboundLocalError", Some(loss), x.training)
    ELSE IF args.include_bce_loss /\ x.training
         THEN IF ~x.bce_labels THEN Raised("ValueError", None, FALSE)
              \* reranking_loss is assigned on no path of this branch either
              ELSE Raised("UnboundLocalError",
                          Some(IF args.include_nll_loss THEN Plus(Bce(1), Nll(1))
                               ELSE Bce(1)),
                          FALSE)
         ELSE IF x.bce_labels THEN Raised("TypeError", None, FALSE)
              ELSE IF args.unified_rr
                   THEN IF ~x.reranking_input
                        THEN Raised("TypeError", None, FALSE)
                        ELSE Returned(Plus(Nll(1), Reranking(1)), FALSE,
                                      CorrectPredictionsCount(x.similarity, x.labels), n)
                   ELSE Returned(Nll(1), FALSE,
                                 CorrectPredictionsCount(x.similarity, x.labels), n)

CalculateLossCall ==
    /\ loss_input # None
    /\ retrieval_output = None
    /\ retrieval_output' = Some(CalculateLoss(Val(loss_input)))
    /\ UNCHANGED <<train_vars, batch_vars, loss_input, eval_vars>>

\* The arguments _calculate_loss reads.
WithLossSettings(A) ==
    { [a EXCEPT !.include_triplet_loss = t,
                !.include_hard_negatives_for_triplets_only = o,
                !.include_bce_loss = bce, !.include_nll_loss = nll,
                !.unified_rr = u, !.nll_lambda = l1, !.triplet_lambda = l2] :
          a \in A, t \in BOOLEAN, o \in BOOLEAN, bce \in BOOLEAN, nll \in BOOLEAN,
          u \in BOOLEAN, l1 \in 1..MaxLambda, l2 \in 1..MaxLambda }

Matrices(n, c) == [1..n -> [1..c -> 0..MaxScore]]

\* The calls train() and evaluate() make: train() has put the encoders in training
\* mode and passes a reranking_input in unified mode, evaluate() has put them in
\* evaluation mode and passes none; the labels come with BCE labels as _get_inputs_dict decides.
LossInputs ==
    { x \in [n : 1..MaxLossQueries, caller : {"train", "evaluate"}, training : BOOLEAN,
             bce_labels : BOOLEAN, reranking_input : BOOLEAN,
             labels : UNION { [1..n -> 0..(n - 1)] : n \in 1..MaxLossQueries },
             similarity : UNION { Matrices(n, n + m) :
                                      n \in 1..MaxLossQueries, m \in 0..MaxLossNegatives }] :
          /\ Len(x.labels) = x.n
          /\ Len(x.similarity) = x.n
          /\ x.training = (x.caller = "train")
          /\ x.reranking_input = (x.caller = "train" /\ args.unified_rr)
          /\ x.bce_labels => (args.include_bce_loss /\ ~x.reranking_input) }

InitLoss ==
    /\ TrainInit(WithLossSettings({DefaultArgs}), NoFiles, Calls(Metrics))
    /\ len_train_dataloader = 1
    /\ BatchIdle /\ EvalIdle
    /\ loss_input \in { Some(x) : x \in LossInputs }
    /\ retrieval_output = None
NextLoss == CalculateLossCall
SpecLoss == InitLoss /\ [][NextLoss]_vars

LossIn == Val(loss_input)
LossOut == Val(retrieval_output)
LossCalled == retrieval_output # None
HardNegativesIn == Len(LossIn.similarity[1]) - LossIn.n
\* Every row's first maximal column is its label.
EveryArgMaxIsLabel ==
    \A i \in 1..LossIn.n : ArgMax(LossIn.similarity[i]) = LossIn.labels[i]

\* C8: for every combination of the loss flags, in training and in evaluation
\* mode, _calculate_loss returns a result whose correct_predictions_percentage is
\* 100 * (rows whose argmax column is the label) / (number of queries), and is 100
\* when every row's argmax is its label.
C8_CompletesWithPercentage ==
    LossCalled =>
        /\ LossOut.kind = "return"
        /\ LossOut.correct_predictions_percentage =
               Some(<<100 * CorrectPredictionsCount(LossIn.similarity, LossIn.labels),
                      LossIn.n>>)
        /\ EveryArgMaxIsLabel =>
               LossOut.correct_predictions_percentage = Some(<<100 * LossIn.n, LossIn.n>>)

\* C9: with include_triplet_loss, a training batch without hard negatives returns
\* the NLL-based loss without computing the triplet term; with hard negatives in
\* training mode the loss is nll_lambda * NLL + triplet_lambda * triplet; in
\* evaluation mode it is the NLL alone.
C9_TripletLoss ==
    (LossCalled /\ args.include_triplet_loss) =>
        /\ LossOut.kind = "return"
        /\ (LossIn.training /\ HardNegativesIn = 0) =>
               /\ ~LossOut.triplet_computed
               /\ LossOut.loss \in {Some(Nll(args.nll_lambda)), Some(Nll(1))}
        /\ (LossIn.training /\ HardNegativesIn > 0) =>
               LossOut.loss = Some(Plus(Nll(args.nll_lambda), Triplet(args.triplet_lambda)))
        /\ ~LossIn.training => LossOut.loss = Some(Nll(1))

\* C10: with include_bce_loss and without include_triplet_loss, a training step
\* returns BCE + NLL when include_nll_loss is set and BCE alone when it is not; in
\* evaluation mode the loss is the NLL.
C10_BceLoss ==
    (LossCalled /\ args.include_bce_loss /\ ~args.include_triplet_loss) =>
        /\ LossOut.kind = "return"
        /\ LossIn.training =>
               LossOut.loss = Some(IF args.include_nll_loss THEN Plus(Bce(1), Nll(1))
                                   ELSE Bce(1))
        /\ ~LossIn.training => LossOut.loss = Some(Nll(1))

\* C11: a configuration with both include_bce_loss and include_triplet_loss is
\* rejected with a configuration error (a ValueError, as every configuration check
\* of the class raises); no loss is computed with one flag taking precedence.
C11_BceWithTripletIsRejected ==
    (LossCalled /\ args.include_bce_loss /\ args.include_triplet_loss) =>
        /\ LossOut.kind = "raise"
        /\ LossOut.exc = "ValueError"
        /\ LossOut.loss = None

---------------------------------------------------------------------------
(* The claims about rejected configurations.                               *)

UnsupportedName == args.optimizer \notin Optimizers \/ args.scheduler \notin Schedulers
Called == pc # "idle"
NothingTrained ==
    /\ global_step = 0
    /\ run.backward = 0
    /\ run.optimizer_steps = 0
    /\ tr_loss = 0
    /\ files = run.files_before

\* C12: with an unsupported optimizer or scheduler name the call raises a
\* configuration error (ValueError) before training starts: no batch is forwarded,
\* no backward pass or optimizer step runs, global_step stays 0 and no checkpoint
\* is written; nothing is tried again after the error.
C12_UnsupportedNameIsFatal ==
    /\ [](UnsupportedName /\ Called =>
              /\ pc = "error"
              /\ ret = Raise("ValueError")
              /\ NothingTrained)
    /\ [][~(UnsupportedName /\ pc = "error")]_vars
\* the error raised by train(), its two checks passed by train_model()
C12_RaisedInTrain ==
    /\ UnsupportedName
    /\ pc = "error"
    /\ run.stages = SetUp

MissingEvalData == args.evaluate_during_training /\ ~call.eval_data
OccupiedOutputDir ==
    /\ \E d \in DOMAIN run.files_before : d.root = args.output_dir
    /\ ~args.overwrite_output_dir

\* C13: train_model() with evaluate_during_training and no eval_data, or with a
\* non-empty output directory and overwrite_output_dir off, raises a configuration
\* error (ValueError) before the dataset is loaded, before an encoder is moved,
\* before a directory is created or a file written and before any training step.
C13_ChecksComeFirst ==
    (Called /\ (MissingEvalData \/ OccupiedOutputDir)) =>
        /\ pc = "error"
        /\ ret = Raise("ValueError")
        /\ run.stages = <<>>
        /\ NothingTrained
\* the call rejected for its output directory, eval_data being in order
C13_Rejected ==
    /\ pc = "error"
    /\ OccupiedOutputDir
    /\ ~MissingEvalData

---------------------------------------------------------------------------
(* compute_metrics(): the test whether a retrieved text matches a gold or   *)
(* relevant text.  A text is the sequence of its characters.                *)

Whitespace == {" ", "\t"}
Punctuation == {"."}
Characters == {"a", "A", "b"} \cup Whitespace \cup Punctuation

RECURSIVE LStrip(_)
LStrip(t) == IF t # <<>> /\ Head(t) \in Whitespace THEN LStrip(Tail(t)) ELSE t
RECURSIVE RStrip(_)
RStrip(t) ==
    IF t # <<>> /\ t[Len(t)] \in Whitespace THEN RStrip(SubSeq(t, 1, Len(t) - 1)) ELSE t
\* str.strip()
Strip(t) == RStrip(LStrip(t))
\* str.lower()
Lower(t) == [i \in 1..Len(t) |-> IF t[i] = "A" THEN "a" ELSE t[i]]
\* the characters of t that are not in C, in their order
RECURSIVE Without(_, _)
Without(t, C) ==
    IF t = <<>> THEN <<>>
    ELSE IF Head(t) \in C THEN Without(Tail(t), C)
    ELSE <<Head(t)>> \o Without(Tail(t), C)
\* str.replace(" ", "")
ReplaceSpaces(t) == Without(t, {" "})
\* str.translate(str.maketrans("", "", string.punctuation))
RemovePunctuation(t) == Without(t, Punctuation)
\* x in y, for strings
Contains(y, x) ==
    \E i \in 0..(Len(y) - Len(x)) : SubSeq(y, i + 1, i + Len(x)) = x

\* The test of the qa_evaluation branch, on both sides.
NormalizeQA(t) == RemovePunctuation(ReplaceSpaces(Lower(Strip(t))))
\* The test of the other branch, on both sides.
NormalizeExact(t) == RemovePunctuation(Lower(Strip(t)))
\* d, a retrieved text, matches truth, a gold passage or a relevant text.
Matches(d, truth, qa_evaluation) ==
    IF qa_evaluation THEN Contains(NormalizeQA(d), NormalizeQA(truth))
    ELSE NormalizeExact(d) = NormalizeExact(truth)

Match ==
    /\ matching # None
    /\ Val(matching).result = None
    /\ matching' = Some([Val(matching) EXCEPT !.result =
           Some(Matches(Val(matching).d, Val(matching).truth,
                        Val(matching).qa_evaluation))])
    /\ UNCHANGED <<train_vars, batch_vars, loss_vars, eval_call, eval_run, retrieval, prediction>>

TextsUpTo(n) == UNION { [1..k -> Characters] : k \in 0..n }
InitMatch ==
    /\ TrainInit({DefaultArgs}, NoFiles, Calls(Metrics))
    /\ len_train_dataloader = 1
    /\ BatchIdle /\ LossIdle
    /\ eval_call = None /\ eval_run = None /\ retrieval = None /\ prediction = None
    /\ matching \in { Some([d |-> d, truth |-> t, qa_evaluation |-> qa, result |-> None]) :
                          d \in TextsUpTo(MaxTextLen), t \in TextsUpTo(MaxTextLen),
                          qa \in BOOLEAN }
NextMatch == Match
SpecMatch == InitMatch /\ [][NextMatch]_vars

\* A text without punctuation, letter case and whitespace.
Plain(t) == Without(Lower(t), Whitespace \cup Punctuation)

\* C16: a retrieved text matches a gold or relevant text iff the two are equal
\* after removing punctuation, case and whitespace, and with qa_evaluation iff
\* the gold text so normalized is a substring of the retrieved text so normalized.
C16_MatchingIsNormalized ==
    (matching # None /\ Val(matching).result # None) =>
        Val(Val(matching).result) =
            IF Val(matching).qa_evaluation
            THEN Contains(Plain(Val(matching).d), Plain(Val(matching).truth))
            ELSE Plain(Val(matching).d) = Plain(Val(matching).truth)

---------------------------------------------------------------------------
(* compute_metrics(): the relevance matrices and the scores.  A fraction   *)
(* is the pair of its numerator and denominator; floating point rounding   *)
(* is left out.                                                            *)

RECURSIVE Sum(_)
Sum(row) == IF row = <<>> THEN 0 ELSE Head(row) + Sum(Tail(row))
RECURSIVE Product(_)
Product(row) == IF row = <<>> THEN 1 ELSE Head(row) * Product(Tail(row))
Fraction(n, d) == [num |-> n, den |-> d]
\* row[:k]
Prefix(row, k) == SubSeq(row, 1, Min(k, Len(row)))
SetMax(S) == CHOOSE x \in S : \A y \in S : y <= x

\* top_k_values when the caller gives none
DefaultTopKValues == {1, 2, 3, 5, 10}

\* hits[j]: the text retrieved at rank j matches one of the texts in truths.
Hits(docs, truths, qa_evaluation) ==
    [j \in 1..Len(docs) |->
        \E t \in 1..Len(truths) : Matches(docs[j], truths[t], qa_evaluation)]
\* the ranks that match, and the lowest of them (0: none)
HitRanks(hits) == { j \in 1..Len(hits) : hits[j] }
FirstHitRank(hits) ==
    IF HitRanks(hits) = {} THEN 0
    ELSE CHOOSE j \in HitRanks(hits) : \A h \in HitRanks(hits) : j <= h

\* A row of relevance_list_first_hit, n wide: the loop over the ranks flags a match
\* that no flag precedes.  Written without the break of the gold-passage loop and
\* without the sum() test of the other loop.
FirstHitRowUnguarded(hits, n) ==
    [j \in 1..n |-> IF j <= Len(hits) /\ hits[j] THEN 1 ELSE 0]
FirstHitRow(hits, n) ==
    [j \in 1..n |-> IF j = FirstHitRank(hits) THEN 1 ELSE 0]
\* A row of relevance_list_all_hits in the loop over relevant_docs.
AllHitsRow(hits, n) ==
    [j \in 1..n |-> IF j <= Len(hits) /\ hits[j] THEN 1 ELSE 0]
\* relevance_list[i, j] = 1 with j outside the retrieve_n_docs columns
RaisesIndexError(hits, n, with_relevant_docs) ==
    IF with_relevant_docs THEN \E j \in HitRanks(hits) : j > n
    ELSE FirstHitRank(hits) > n

\* retrieval_utils.mean_reciprocal_rank_at_k(rs, k): for each row 1/r, r the first
\* flagged rank among the first k, and 0 without one; the mean as a fraction over
\* the common denominator Product(1..k), and the values of the rows.
MeanReciprocalRankAtK(rs, k) ==
    LET common == Product([j \in 1..k |-> j])
        rank(i) == FirstHitRank([j \in 1..Len(Prefix(rs[i], k)) |-> rs[i][j] = 1])
        each == [i \in 1..Len(rs) |->
                    IF rank(i) = 0 THEN Fraction(0, 1) ELSE Fraction(1, rank(i))]
    IN  [mean |-> Fraction(Sum([i \in 1..Len(rs) |->
                                   each[i].num * (common \div each[i].den)]),
                           common * Len(rs)),
         each |-> each]
\* The flags among the first k over k, the precision of the first k.
GetPrecisionAtK(rs, rt, k) ==
    LET each == [i \in 1..Len(rs) |-> Fraction(Sum(Prefix(rs[i], k)), k)]
    IN  [mean |-> Fraction(Sum([i \in 1..Len(rs) |-> each[i].num]), k * Len(rs)),
         each |-> each]
\* retrieval_utils.get_recall_at_k(rs, rt, k): for each row the flags among the
\* first k over the row's total_relevant; the mean as a fraction, and the rows.
GetRecallAtK(rs, rt, k) ==
    LET each == [i \in 1..Len(rs) |-> Fraction(Sum(Prefix(rs[i], k)), rt[i])]
    IN  [mean |-> Fraction(Sum([i \in 1..Len(rs) |->
                                   each[i].num * (Product(rt) \div rt[i])]),
                           Product(rt) * Len(rs)),
         each |-> each]

\* The call of mean_reciprocal_rank_at_k with the whole width for k.
MrrAtKOfAllRanks(first_hit, k) ==
    MeanReciprocalRankAtK(first_hit, Len(first_hit[1]))
\* mean_reciprocal_rank_at_k(relevance_list_first_hit, k, ...), as called for k
MrrAtK(first_hit, k) == MeanReciprocalRankAtK(first_hit, k)
\* np.sum(relevance_list_first_hit[:, :k], axis=1) and its np.mean
TopKAccuracy(first_hit, k) ==
    LET each == [i \in 1..Len(first_hit) |-> Sum(Prefix(first_hit[i], k))]
    IN  [mean |-> Fraction(Sum(each), Len(first_hit)), each |-> each]

MetricsRaised(exc) == [kind |-> "raise", exc |-> exc]
\* compute_metrics(gold_passages, doc_texts, relevant_docs, args, qa_evaluation,
\* top_k_values): what it returns or raises; a is args.
ComputeMetrics(gold_passages, doc_texts, relevant_docs, a, qa_evaluation, top_k_values) ==
    LET ks == IF top_k_values = None THEN DefaultTopKValues ELSE Val(top_k_values)
        n == a.retrieve_n_docs
        rows == 1..Len(gold_passages)
        with_relevant_docs == relevant_docs # None
        truths(i) == IF with_relevant_docs THEN Val(relevant_docs)[i]
                     ELSE <<gold_passages[i]>>
        hits == [i \in rows |-> Hits(doc_texts[i], truths(i), qa_evaluation)]
        first_hit == [i \in rows |-> FirstHitRow(hits[i], n)]
        all_hits == IF with_relevant_docs
                    THEN [i \in rows |-> AllHitsRow(hits[i], n)]
                    ELSE first_hit
        total_relevant == [i \in rows |-> Len(truths(i))]
    IN  IF SetMax(ks) > n THEN MetricsRaised("ValueError")
        ELSE IF \E i \in rows : RaisesIndexError(hits[i], n, with_relevant_docs)
        THEN MetricsRaised("IndexError")
        ELSE [kind |-> "return",
              top_k_values |-> ks,
              mrr |-> [k \in ks |-> MrrAtK(first_hit, k)],
              top_k_accuracy |-> [k \in ks |-> TopKAccuracy(first_hit, k)],
              recall |-> IF with_relevant_docs
                         THEN Some([k \in ks |-> GetRecallAtK(all_hits, total_relevant, k)])
                         ELSE None,
              relevance_list_first_hit |-> first_hit,
              relevance_list |-> all_hits]

---------------------------------------------------------------------------
(* evaluate(): the queries are encoded batch by batch, the passages are     *)
(* retrieved, compute_metrics() scores them and the results are written.    *)
(* eval_call.index holds, for each query, the ranking the passage index     *)
(* gives it.                                                                *)

CeilDiv(a, b) == (a + b - 1) \div b
EvalCall == Val(eval_call)
EvalRun == Val(eval_run)
NewEvalRun == [pc |-> "batches", encoded |-> 0, lookups |-> 0, doc_texts |-> None,
               metrics |-> None, results_written |-> FALSE, ret |-> NoReturn]
\* retrieve_n_docs of the call, args.retrieve_n_docs when the call gives none
RetrievalDepth ==
    IF EvalCall.retrieve_n_docs = None THEN args.retrieve_n_docs
    ELSE Val(EvalCall.retrieve_n_docs)

\* One batch of the evaluation dataloader goes through the encoders.
EvaluateBatch ==
    /\ eval_run # None
    /\ EvalRun.pc = "batches"
    /\ LET encoded == Min(EvalRun.encoded + args.eval_batch_size,
                          Len(EvalCall.gold_passages))
       IN  eval_run' = Some([EvalRun EXCEPT
               !.encoded = encoded,
               !.pc = IF encoded = Len(EvalCall.gold_passages) THEN "retrieve"
                      ELSE "batches"])
    /\ UNCHANGED <<train_vars, batch_vars, loss_vars, eval_call, retrieval, matching, prediction>>

\* retrieve_docs_from_query_embeddings() and the texts of what it returns.
EvaluateRetrieve ==
    /\ eval_run # None
    /\ EvalRun.pc = "retrieve"
    /\ eval_run' = Some(
           IF EvalCall.evaluate_with_all_passages
           THEN [EvalRun EXCEPT
                    !.pc = "metrics",
                    !.lookups = CeilDiv(Len(EvalCall.gold_passages),
                                        args.retrieval_batch_size),
                    !.doc_texts = Some([i \in 1..Len(EvalCall.index) |->
                                           Prefix(EvalCall.index[i], RetrievalDepth)])]
           ELSE [EvalRun EXCEPT !.pc = "metrics"])
    /\ UNCHANGED <<train_vars, batch_vars, loss_vars, eval_call, retrieval, matching, prediction>>

\* compute_metrics(), eval_results.txt and the return of evaluate().
EvaluateFinish ==
    /\ eval_run # None
    /\ EvalRun.pc = "metrics"
    /\ eval_run' = Some(
           IF EvalCall.evaluate_with_all_passages
           THEN LET m == ComputeMetrics(EvalCall.gold_passages, Val(EvalRun.doc_texts),
                                        EvalCall.relevant_docs, args,
                                        EvalCall.qa_evaluation, EvalCall.top_k_values)
                IN  IF m.kind = "raise"
                    THEN [EvalRun EXCEPT !.pc = "error", !.ret = Raise(m.exc)]
                    ELSE [EvalRun EXCEPT !.pc = "returned", !.metrics = Some(m),
                                         !.results_written = TRUE]
           \* doc_ids and the other results are bound in the branch above only
           ELSE [EvalRun EXCEPT !.pc = "error", !.results_written = TRUE,
                                !.ret = Raise("UnboundLocalError")])
    /\ UNCHANGED <<train_vars, batch_vars, loss_vars, eval_call, retrieval, matching, prediction>>

NextEval == EvaluateBatch \/ EvaluateRetrieve \/ EvaluateFinish

\* The settings evaluate() reads.
WithEvalSettings(A, N) ==
    { [a EXCEPT !.retrieve_n_docs = n, !.eval_batch_size = eb,
                !.retrieval_batch_size = rb] :
          a \in A, n \in N, eb \in 1..2, rb \in 1..2 }
EvalInit(A, C) ==
    /\ TrainInit(A, NoFiles, Calls(Metrics))
    /\ len_train_dataloader = 1
    /\ BatchIdle /\ LossIdle
    /\ eval_call \in { Some(c) : c \in C }
    /\ eval_run = Some(NewEvalRun)
    /\ retrieval = None /\ matching = None /\ prediction = None

\* The texts of the passages and of the gold passages.
MetricTexts == {<<"a">>, <<"a", "b">>}
\* Calls that differ in the depth and the top_k_values they ask for.
DepthCalls ==
    [gold_passages : UNION { [1..q -> {<<"a">>}] : q \in 1..MaxEvalQueries },
     index : UNION { [1..q -> {[j \in 1..(MaxDocs + 1) |->
                                   IF j = MaxDocs + 1 THEN <<"a">> ELSE <<"a", "b">>]}] :
                         q \in 1..MaxEvalQueries },
     relevant_docs : {None},
     qa_evaluation : {FALSE},
     top_k_values : {None} \cup { Some(1..k) : k \in 1..(MaxDocs + 1) },
     retrieve_n_docs : {None} \cup { Some(n) : n \in 1..(MaxDocs + 1) },
     evaluate_with_all_passages : BOOLEAN]
InitEvaluate ==
    EvalInit(WithEvalSettings({DefaultArgs}, 1..MaxDocs),
             { c \in DepthCalls : Len(c.index) = Len(c.gold_passages) })
SpecEvaluate == InitEvaluate /\ [][NextEval]_vars

TopK == IF EvalCall.top_k_values = None THEN DefaultTopKValues
        ELSE Val(EvalCall.top_k_values)
EvaluateCalled == eval_run # None /\ EvalRun # NewEvalRun

\* C14: when max(top_k_values) exceeds the retrieval depth of the evaluation
\* (retrieve_n_docs of the call when given, else args.retrieve_n_docs), the
\* evaluation fails with a configuration error (ValueError) before any
\* computation: no query is encoded, no index lookup is made, no relevance matrix
\* is built and no results file is written; when it is within the depth, no such
\* error is raised.
C14_DepthIsCheckedFirst ==
    EvaluateCalled =>
        IF SetMax(TopK) > RetrievalDepth
        THEN /\ EvalRun.pc = "error"
             /\ EvalRun.ret = Raise("ValueError")
             /\ EvalRun.encoded = 0
             /\ EvalRun.lookups = 0
             /\ EvalRun.metrics = None
             /\ ~EvalRun.results_written
        ELSE EvalRun.ret # Raise("ValueError")

---------------------------------------------------------------------------
(* Evaluations that differ in the texts retrieved and the texts expected.  *)

RelevantLists == {<<<<"a">>>>, <<<<"a">>, <<"a", "b">>>>}
MetricsCalls(q, n) ==
    [gold_passages : [1..q -> MetricTexts],
     index : [1..q -> [1..n -> MetricTexts]],
     relevant_docs : {None} \cup { Some(r) : r \in [1..q -> RelevantLists] },
     qa_evaluation : BOOLEAN,
     top_k_values : { Some(1..k) : k \in 1..n },
     retrieve_n_docs : {None},
     evaluate_with_all_passages : {TRUE}]
\* 3 queries, 5 passages retrieved for each, the gold passage at rank 1, at rank 3
\* and at no rank.
ExampleCall ==
    [gold_passages |-> <<<<"a">>, <<"a">>, <<"a">>>>,
     index |-> <<<<<<"a">>, <<"b">>, <<"b">>, <<"b">>, <<"b">>>>,
                 <<<<"b">>, <<"b">>, <<"a">>, <<"b">>, <<"b">>>>,
                 <<<<"b">>, <<"b">>, <<"b">>, <<"b">>, <<"b">>>>>>,
     relevant_docs |-> None,
     qa_evaluation |-> FALSE,
     top_k_values |-> Some({1, 3, 5}),
     retrieve_n_docs |-> None,
     evaluate_with_all_passages |-> TRUE]
InitMetrics ==
    \/ \E q \in 1..MaxEvalQueries, n \in 1..MaxDocs :
           EvalInit({[DefaultArgs EXCEPT !.retrieve_n_docs = n]},
                    \* the gold passages are not read when relevant_docs is given
                    { c \in MetricsCalls(q, n) :
                          c.relevant_docs # None =>
                              \A i \in 1..q : c.gold_passages[i] = <<"a">> })
    \/ EvalInit({[DefaultArgs EXCEPT !.retrieve_n_docs = 5]}, {ExampleCall})
SpecMetrics == InitMetrics /\ [][NextEval]_vars

\* What the claims compare the scores with: the texts expected for query i, the
\* ranks at which a retrieved text matches one of them, and the lowest such rank.
EvaluateReturned == eval_run # None /\ EvalRun.pc = "returned"
Scored == Val(EvalRun.metrics)
Queries == 1..Len(EvalCall.gold_passages)
Expected(i) == IF EvalCall.relevant_docs = None THEN <<EvalCall.gold_passages[i]>>
               ELSE Val(EvalCall.relevant_docs)[i]
MatchingRanks(i) ==
    HitRanks(Hits(Val(EvalRun.doc_texts)[i], Expected(i), EvalCall.qa_evaluation))
FirstMatchingRank(i) ==
    FirstHitRank(Hits(Val(EvalRun.doc_texts)[i], Expected(i), EvalCall.qa_evaluation))
Flagged(row) == { j \in 1..Len(row) : row[j] = 1 }
SameFraction(x, y) == x.num * y.den = y.num * x.den
AtMost(x, y) == x.num * y.den <= y.num * x.den

\* C15: with or without relevant_docs, the first-hit row of a query flags exactly
\* the lowest rank whose text matches (none if none matches), and its row of the
\* relevance matrix returned flags every rank whose text matches.
C15_FirstHitAndAllHits ==
    EvaluateReturned =>
        \A i \in Queries :
            /\ Flagged(Scored.relevance_list_first_hit[i]) =
                   IF MatchingRanks(i) = {} THEN {} ELSE {FirstMatchingRank(i)}
            /\ Flagged(Scored.relevance_list[i]) = MatchingRanks(i)

\* the reciprocal rank of query i within the first k ranks
ReciprocalRank(i, k) ==
    IF FirstMatchingRank(i) \in 1..k THEN Fraction(1, FirstMatchingRank(i))
    ELSE Fraction(0, 1)
\* the sum of the fractions each[i], over the common denominator common
SumOver(each, common) ==
    Fraction(Sum([i \in 1..Len(each) |-> each[i].num * (common \div each[i].den)]),
             common)

\* C17: for every k of top_k_values, mrr_at_k is the mean over the queries of 1/r
\* for a query whose first matching rank r is within the first k and of 0 for any
\* other query; further matches of a query add nothing.
C17_MrrIsMeanReciprocalRank ==
    EvaluateReturned =>
        \A k \in TopK :
            LET common == Product([j \in 1..k |-> j])
                each == [i \in Queries |-> ReciprocalRank(i, k)]
            IN  /\ \A i \in Queries : SameFraction(Scored.mrr[k].each[i], each[i])
                /\ SameFraction(Scored.mrr[k].mean,
                                Fraction(SumOver(each, common).num,
                                         common * Len(EvalCall.gold_passages)))
\* a query with two matching ranks and a query whose first match is at rank 2
C17_SecondRankFirst ==
    /\ EvaluateReturned
    /\ \E i \in Queries : Cardinality(MatchingRanks(i)) >= 2
    /\ \E i \in Queries : FirstMatchingRank(i) = 2
    /\ 1 \in TopK /\ 2 \in TopK

\* C18: for every k of top_k_values, top_k_accuracy is the fraction of the queries
\* whose first matching rank is within the first k, each query counting 0 or 1;
\* for 3 queries with 5 passages each and the gold passages at rank 1, at rank 3 and
\* nowhere, top_1_accuracy = 1/3, top_3_accuracy = 2/3 and mrr_at_5 = (1 + 1/3)/3.
C18_TopKAccuracy ==
    EvaluateReturned =>
        /\ \A k \in TopK :
               /\ \A i \in Queries :
                      Scored.top_k_accuracy[k].each[i] =
                          IF FirstMatchingRank(i) \in 1..k THEN 1 ELSE 0
               /\ SameFraction(Scored.top_k_accuracy[k].mean,
                      Fraction(Cardinality({ i \in Queries : FirstMatchingRank(i) \in 1..k }),
                               Len(EvalCall.gold_passages)))
        /\ EvalCall = ExampleCall =>
               /\ SameFraction(Scored.top_k_accuracy[1].mean, Fraction(1, 3))
               /\ SameFraction(Scored.top_k_accuracy[3].mean, Fraction(2, 3))
               /\ SameFraction(Scored.mrr[5].mean, Fraction(4, 9))
\* the scores of the example
C18_Example == EvaluateReturned /\ EvalCall = ExampleCall

\* C19: with relevant_docs, recall_at_k does not decrease as k grows, for each
\* query and in the mean.
C19_RecallIsMonotone ==
    (EvaluateReturned /\ Scored.recall # None) =>
        \A k1 \in TopK, k2 \in TopK :
            k1 <= k2 =>
                /\ \A i \in Queries :
                       AtMost(Val(Scored.recall)[k1].each[i], Val(Scored.recall)[k2].each[i])
                /\ AtMost(Val(Scored.recall)[k1].mean, Val(Scored.recall)[k2].mean)
\* recall that grows from the first rank to the second
C19_RecallGrows ==
    /\ EvaluateReturned
    /\ Scored.recall # None
    /\ 2 \in TopK
    /\ ~AtMost(Val(Scored.recall)[2].mean, Val(Scored.recall)[1].mean)

---------------------------------------------------------------------------
(* retrieve_docs_from_query_embeddings(): the query embeddings go to the   *)
(* passage index in slices of retrieval_batch_size.  An embedding is named *)
(* by a number; the index answers a query with its n best passages.        *)

Retrieval == Val(retrieval)
\* What the index holds at rank j for the query embedding e.
\* Ids and vectors are numbers, as the zeros the result arrays start from are,
\* and no passage has 0 for either.
DocId(e, j) == e * (MaxDocs + 1) + j
DocVector(e, j) == 0 - DocId(e, j)
\* the reranking embedding the index stores for that passage
StoredRerankEmbedding(e, j) == <<((e + j) % 2) + 1>>
DocDict(e, n) ==
    [passages |-> [j \in 1..n |-> <<"passage", e, j>>],
     embeddings |-> [j \in 1..n |-> DocVector(e, j)],
     rerank_embeddings |-> [j \in 1..n |-> StoredRerankEmbedding(e, j)]]
\* passage_dataset.get_top_docs(query_embeddings, n): a row for each query
GetTopDocs(query_embeddings, n) ==
    [ids |-> [q \in 1..Len(query_embeddings) |->
                 [j \in 1..n |-> DocId(query_embeddings[q], j)]],
     vectors |-> [q \in 1..Len(query_embeddings) |->
                     [j \in 1..n |-> DocVector(query_embeddings[q], j)]],
     doc_dicts |-> [q \in 1..Len(query_embeddings) |-> DocDict(query_embeddings[q], n)]]

\* np.zeros((len(query_embeddings), retrieve_n_docs))
Zeros(rows, n) == [q \in 1..rows |-> [j \in 1..n |-> 0]]
\* The first row of the slice written with the length of the batch for its size.
SliceStartOfLength(i, retrieval_batch_size, n_ids) == i * n_ids
\* i * args.retrieval_batch_size: the first row (from 0) the i-th batch is written to
SliceStart(i, retrieval_batch_size, n_ids) == i * retrieval_batch_size
\* batched[start : start + len(rows)] = rows
AssignSlice(batched, start, rows) ==
    [q \in 1..Len(batched) |->
        IF q > start /\ q <= start + Len(rows) THEN rows[q - start] ELSE batched[q]]
\* query_embeddings[i : i + args.retrieval_batch_size] for the i-th batch (from 0)
QueryBatch(query_embeddings, i, retrieval_batch_size) ==
    SubSeq(query_embeddings, i * retrieval_batch_size + 1,
           Min((i + 1) * retrieval_batch_size, Len(query_embeddings)))

\* One pass of the loop over query_embeddings_batched.
RetrieveBatch ==
    /\ retrieval # None
    /\ Retrieval.pc = "loop"
    /\ Retrieval.i < CeilDiv(Len(Retrieval.query_embeddings), args.retrieval_batch_size)
    /\ LET i == Retrieval.i
           queries == QueryBatch(Retrieval.query_embeddings, i, args.retrieval_batch_size)
           top == GetTopDocs(queries, Retrieval.retrieve_n_docs)
           start == SliceStart(i, args.retrieval_batch_size, Len(top.ids))
       IN  retrieval' = Some(
               IF Retrieval.passages_only
               THEN [Retrieval EXCEPT
                        !.i = i + 1,
                        !.calls = Append(@, queries),
                        !.passages = @ \o [q \in 1..Len(queries) |->
                                              top.doc_dicts[q].passages]]
               ELSE [Retrieval EXCEPT
                        !.i = i + 1,
                        !.calls = Append(@, queries),
                        !.ids_batched = AssignSlice(@, start, top.ids),
                        !.vectors_batched = AssignSlice(@, start, top.vectors),
                        !.doc_dicts = IF Retrieval.return_doc_dicts
                                      THEN @ \o top.doc_dicts ELSE @])
    /\ UNCHANGED <<train_vars, batch_vars, loss_vars, eval_call, eval_run, matching, prediction>>

\* The loop is over: the function returns.
RetrieveReturn ==
    /\ retrieval # None
    /\ Retrieval.pc = "loop"
    /\ Retrieval.i = CeilDiv(Len(Retrieval.query_embeddings), args.retrieval_batch_size)
    /\ retrieval' = Some([Retrieval EXCEPT
           !.pc = "returned",
           !.ret = IF Retrieval.passages_only
                   THEN [passages |-> Some(Retrieval.passages), ids |-> None,
                         vectors |-> None, doc_dicts |-> None]
                   ELSE [passages |-> None, ids |-> Some(Retrieval.ids_batched),
                         vectors |-> Some(Retrieval.vectors_batched),
                         doc_dicts |-> IF Retrieval.return_doc_dicts
                                       THEN Some(Retrieval.doc_dicts) ELSE None]])
    /\ UNCHANGED <<train_vars, batch_vars, loss_vars, eval_call, eval_run, matching, prediction>>

NextRetrieve == RetrieveBatch \/ RetrieveReturn

\* A call: the embeddings, the depth (args.retrieve_n_docs when none is given), the
\* two flags; and the state before the loop.
RetrievalCalls ==
    { [query_embeddings |-> qe, retrieve_n_docs |-> n, passages_only |-> po,
       return_doc_dicts |-> rd, pc |-> "loop", i |-> 0, calls |-> <<>>,
       passages |-> <<>>, ids_batched |-> Zeros(Len(qe), n),
       vectors_batched |-> Zeros(Len(qe), n), doc_dicts |-> <<>>,
       ret |-> [passages |-> None, ids |-> None, vectors |-> None, doc_dicts |-> None]] :
          qe \in UNION { [1..q -> 1..2] : q \in 1..MaxRetrievalQueries },
          n \in 1..MaxDocs, po \in BOOLEAN, rd \in BOOLEAN }
InitRetrieve ==
    /\ TrainInit({ [DefaultArgs EXCEPT !.retrieval_batch_size = b] :
                       b \in 1..MaxRetrievalBatch }, NoFiles, Calls(Metrics))
    /\ len_train_dataloader = 1
    /\ BatchIdle /\ LossIdle
    /\ eval_call = None /\ eval_run = None /\ matching = None /\ prediction = None
    /\ retrieval \in { Some(c) : c \in RetrievalCalls }
SpecRetrieve == InitRetrieve /\ [][NextRetrieve]_vars

RetrieveReturned == retrieval # None /\ Retrieval.pc = "returned"
\* the one call over all the queries
Unbatched == GetTopDocs(Retrieval.query_embeddings, Retrieval.retrieve_n_docs)
\* the concatenation of the slices given to the index
RECURSIVE Concat(_)
Concat(seqs) == IF seqs = <<>> THEN <<>> ELSE Head(seqs) \o Concat(Tail(seqs))

\* C20: for every number of queries and every retrieval_batch_size, also when the
\* first is no multiple of the second, the index is called once for each
\* consecutive slice of at most retrieval_batch_size queries, and what is returned
\* has a row for every query, row q being the index's answer to query q, as one
\* call over all the queries gives.
C20_BatchedIsUnbatched ==
    RetrieveReturned =>
        /\ Len(Retrieval.calls) =
               CeilDiv(Len(Retrieval.query_embeddings), args.retrieval_batch_size)
        /\ \A c \in 1..Len(Retrieval.calls) :
               Len(Retrieval.calls[c]) \in 1..args.retrieval_batch_size
        /\ Concat(Retrieval.calls) = Retrieval.query_embeddings
        /\ IF Retrieval.passages_only
           THEN Retrieval.ret.passages =
                    Some([q \in 1..Len(Retrieval.query_embeddings) |->
                             Unbatched.doc_dicts[q].passages])
           ELSE /\ Retrieval.ret.ids = Some(Unbatched.ids)
                /\ Retrieval.ret.vectors = Some(Unbatched.vectors)
                /\ Retrieval.return_doc_dicts =>
                       Retrieval.ret.doc_dicts = Some(Unbatched.doc_dicts)
\* a retrieval whose last slice is smaller than the others
C20_PartialLastBatch ==
    /\ RetrieveReturned
    /\ ~Retrieval.passages_only
    /\ Len(Retrieval.calls) >= 2
    /\ Len(Retrieval.query_embeddings) % args.retrieval_batch_size # 0

---------------------------------------------------------------------------
(* predict(): the queries are encoded in batches of eval_batch_size, their *)
(* embeddings go to the passage index, and in unified mode the candidates  *)
(* are sorted again by a second score.  A query is named by the embedding  *)
(* the query encoder gives it: e for retrieval, r for reranking.           *)

Prediction == Val(prediction)
\* query_model(**query_inputs) with get_output_embeddings: in unified mode the
\* output holds the retrieval embedding and then the reranking embedding
QueryOutputs(query, unified_rr) ==
    IF unified_rr THEN <<query.e, query.r>> ELSE <<query.e>>
\* query_outputs[:, query_outputs.size(1) // 2 :] and [:, : size(1) // 2] of a row
SecondHalf(row) == SubSeq(row, Len(row) \div 2 + 1, Len(row))
FirstHalf(row) == SubSeq(row, 1, Len(row) \div 2)
\* batched[start : stop] = rows, the stop being cut at the length of batched
AssignRange(batched, start, stop, rows) ==
    [q \in 1..Len(batched) |->
        IF q > start /\ q <= stop THEN rows[q - start] ELSE batched[q]]

\* retrieve_docs_from_query_embeddings(all_query_embeddings, ...), the loop of
\* RetrieveBatch from batch i on, added to what the batches before it gave
RECURSIVE RetrieveDocsFromQueryEmbeddings(_, _, _, _, _)
RetrieveDocsFromQueryEmbeddings(query_embeddings, n, retrieval_batch_size, i, got) ==
    IF i >= CeilDiv(Len(query_embeddings), retrieval_batch_size)
    THEN got
    ELSE LET top == GetTopDocs(QueryBatch(query_embeddings, i, retrieval_batch_size), n)
             start == SliceStart(i, retrieval_batch_size, Len(top.ids))
         IN  RetrieveDocsFromQueryEmbeddings(
                 query_embeddings, n, retrieval_batch_size, i + 1,
                 [ids |-> AssignSlice(got.ids, start, top.ids),
                  vectors |-> AssignSlice(got.vectors, start, top.vectors),
                  doc_dicts |-> got.doc_dicts \o top.doc_dicts])

\* np.dot of two vectors
RECURSIVE Dot(_, _)
Dot(u, v) == IF u = <<>> THEN 0 ELSE Head(u) * Head(v) + Dot(Tail(u), Tail(v))
\* compute_rerank_distances(query_embeddings, doc_dicts): row i is the dot product
\* of query_embeddings[i] with the rerank embeddings of doc_dicts[i]
ComputeRerankDistances(query_embeddings, doc_dicts) ==
    IF Len(doc_dicts) > Len(query_embeddings)
    THEN [kind |-> "raise", exc |-> "IndexError"]
    ELSE [kind |-> "return",
          value |-> [i \in 1..Len(doc_dicts) |->
                        [j \in 1..Len(doc_dicts[i].rerank_embeddings) |->
                            Dot(query_embeddings[i], doc_dicts[i].rerank_embeddings[j])]]]
\* The positions of a row in the order it had.
ArgKeep(row) == [a \in 1..Len(row) |-> a]
\* np.argsort of a row, which sorts a short row by insertion: the positions of the
\* row by ascending value, equal values in the order they had
ArgSort(row) ==
    CHOOSE p \in [1..Len(row) -> 1..Len(row)] :
        \A a, b \in 1..Len(row) :
            a < b => \/ row[p[a]] < row[p[b]]
                     \/ row[p[a]] = row[p[b]] /\ p[a] < p[b]
\* [row[j] for j in indices]
Reordered(row, indices) == [a \in 1..Len(indices) |-> row[indices[a]]]

\* One pass of the loop that encodes the queries.
PredictBatch ==
    /\ prediction # None
    /\ Prediction.pc = "encode"
    /\ Prediction.i < CeilDiv(Len(Prediction.to_predict), args.eval_batch_size)
    /\ LET i == Prediction.i
           queries == QueryBatch(Prediction.to_predict, i, args.eval_batch_size)
           outputs == [q \in 1..Len(queries) |-> QueryOutputs(queries[q], args.unified_rr)]
       IN  prediction' = Some([Prediction EXCEPT
               !.i = i + 1,
               !.reranking_query_outputs =
                   IF args.unified_rr
                   THEN Some([q \in 1..Len(outputs) |-> SecondHalf(outputs[q])])
                   ELSE None,
               !.all_query_embeddings =
                   AssignRange(@, i * args.eval_batch_size, (i + 1) * args.eval_batch_size,
                               [q \in 1..Len(outputs) |->
                                   IF args.unified_rr THEN FirstHalf(outputs[q])[1]
                                   ELSE outputs[q][1]])])
    /\ UNCHANGED <<train_vars, batch_vars, loss_vars, eval_call, eval_run, retrieval,
                   matching>>

\* The queries are encoded: their embeddings go to the index.
PredictRetrieve ==
    /\ prediction # None
    /\ Prediction.pc = "encode"
    /\ Prediction.i = CeilDiv(Len(Prediction.to_predict), args.eval_batch_size)
    /\ LET n == args.retrieve_n_docs
           rows == Len(Prediction.all_query_embeddings)
           got == RetrieveDocsFromQueryEmbeddings(
                      Prediction.all_query_embeddings, n, args.retrieval_batch_size, 0,
                      [ids |-> Zeros(rows, n), vectors |-> Zeros(rows, n),
                       doc_dicts |-> <<>>])
           passages == [q \in 1..Len(got.doc_dicts) |-> got.doc_dicts[q].passages]
       IN  prediction' = Some(
               IF Prediction.passages_only
               THEN [Prediction EXCEPT
                        !.pc = "returned", !.primary = Some(got),
                        !.ret = [kind |-> "return", passages |-> passages,
                                 doc_ids |-> None, doc_vectors |-> None,
                                 doc_dicts |-> None]]
               ELSE [Prediction EXCEPT
                        !.pc = IF args.unified_rr THEN "rerank" ELSE "returned",
                        !.primary = Some(got),
                        !.ret = IF args.unified_rr THEN @
                                ELSE [kind |-> "return", passages |-> passages,
                                      doc_ids |-> Some(got.ids),
                                      doc_vectors |-> Some(got.vectors),
                                      doc_dicts |-> Some(got.doc_dicts)]])
    /\ UNCHANGED <<train_vars, batch_vars, loss_vars, eval_call, eval_run, retrieval,
                   matching>>

\* Unified mode: the rerank distances, their argsort, and the outputs in that order.
PredictRerank ==
    /\ prediction # None
    /\ Prediction.pc = "rerank"
    /\ LET got == Val(Prediction.primary)
           distances == ComputeRerankDistances(Val(Prediction.reranking_query_outputs),
                                               got.doc_dicts)
       IN  prediction' = Some(
               IF distances.kind = "raise"
               THEN [Prediction EXCEPT !.pc = "raised", !.ret = distances]
               ELSE LET rerank_indices == [i \in 1..Len(distances.value) |->
                                              ArgSort(distances.value[i])]
                    IN  [Prediction EXCEPT
                            !.pc = "returned",
                            !.rerank_distances = Some(distances.value),
                            !.ret =
                                [kind |-> "return",
                                 passages |->
                                     [i \in 1..Len(got.doc_dicts) |->
                                         Reordered(got.doc_dicts[i].passages,
                                                   rerank_indices[i])],
                                 doc_ids |-> Some([i \in 1..Len(got.ids) |->
                                     Reordered(got.ids[i], rerank_indices[i])]),
                                 doc_vectors |-> Some([i \in 1..Len(got.vectors) |->
                                     Reordered(got.vectors[i], rerank_indices[i])]),
                                 doc_dicts |-> Some([i \in 1..Len(got.doc_dicts) |->
                                     [passages |->
                                          Reordered(got.doc_dicts[i].passages,
                                                    rerank_indices[i]),
                                      embeddings |->
                                          Reordered(got.doc_dicts[i].embeddings,
                                                    rerank_indices[i]),
                                      rerank_embeddings |->
                                          Reordered(got.doc_dicts[i].rerank_embeddings,
                                                    rerank_indices[i])]])]])
    /\ UNCHANGED <<train_vars, batch_vars, loss_vars, eval_call, eval_run, retrieval,
                   matching>>

NextPredict == PredictBatch \/ PredictRetrieve \/ PredictRerank

\* The queries: their retrieval embedding names one of two places of the index.
PredictQueries == [e : 1..2, r : {-1, 1}]
PredictCalls ==
    { [to_predict |-> qs, passages_only |-> po, pc |-> "encode", i |-> 0,
       all_query_embeddings |-> [q \in 1..Len(qs) |-> 0],
       reranking_query_outputs |-> None, primary |-> None, rerank_distances |-> None,
       ret |-> NoReturn] :
          qs \in UNION { [1..q -> PredictQueries] : q \in 1..MaxPredictQueries },
          po \in BOOLEAN }
InitPredict ==
    /\ TrainInit({ [DefaultArgs EXCEPT !.unified_rr = u, !.eval_batch_size = eb,
                                       !.retrieval_batch_size = rb, !.retrieve_n_docs = n] :
                       u \in BOOLEAN, eb \in 1..MaxEvalBatch, rb \in 1..2,
                       n \in 1..MaxDocs }, NoFiles, Calls(Metrics))
    /\ len_train_dataloader = 1
    /\ BatchIdle /\ LossIdle
    /\ eval_call = None /\ eval_run = None /\ matching = None /\ retrieval = None
    /\ prediction \in { Some(c) : c \in PredictCalls }
SpecPredict == InitPredict /\ [][NextPredict]_vars

\* predict() in unified mode got to the point where it reranks, or past it
Reranked == /\ prediction # None
            /\ args.unified_rr /\ ~Prediction.passages_only
            /\ Prediction.pc \in {"returned", "raised"}
\* the rerank score of candidate j of query i
RerankScore(i, j) ==
    Dot(<<Prediction.to_predict[i].r>>,
        StoredRerankEmbedding(Prediction.to_predict[i].e, j))

\* C21: in unified mode, for every number of queries given to predict, more than
\* eval_batch_size among them, the rerank score computed for candidate j of query i
\* is the dot product of the reranking embedding of query i with the reranking
\* embedding stored for that candidate.
C21_RerankScoreIsOwnDotProduct ==
    Reranked =>
        Prediction.rerank_distances =
            Some([i \in 1..Len(Prediction.to_predict) |->
                     [j \in 1..args.retrieve_n_docs |-> RerankScore(i, j)]])

PredictReturned == prediction # None /\ Prediction.pc = "returned"
Orders(n) == { p \in [1..n -> 1..n] : \A a, b \in 1..n : p[a] = p[b] => a = b }
\* what predict() returned for query i is what the index gave, in the order p
ReturnedInOrder(i, p) ==
    LET got == Val(Prediction.primary)
        out == Prediction.ret
    IN  /\ out.passages[i] = Reordered(got.doc_dicts[i].passages, p)
        /\ Val(out.doc_ids)[i] = Reordered(got.ids[i], p)
        /\ Val(out.doc_vectors)[i] = Reordered(got.vectors[i], p)
        /\ \A field \in DOMAIN got.doc_dicts[i] :
               Val(out.doc_dicts)[i][field] = Reordered(got.doc_dicts[i][field], p)

\* C22: in unified mode what predict returns for a query is the candidates of the
\* primary retrieval in the order of ascending rerank score, one permutation being
\* applied to the passages, the doc ids, the doc vectors and every field of the
\* payload, so that nothing is lost or doubled and a position names one passage in
\* all the outputs.
C22_OnePermutationByAscendingScore ==
    PredictReturned /\ Reranked =>
        \A i \in 1..Len(Prediction.to_predict) :
            \E p \in Orders(args.retrieve_n_docs) :
                /\ ReturnedInOrder(i, p)
                /\ \A a, b \in 1..args.retrieve_n_docs :
                       a < b => RerankScore(i, p[a]) <= RerankScore(i, p[b])
\* a returned prediction whose second score changed the order of a query's candidates
C22_OrderChanged ==
    /\ PredictReturned /\ Reranked
    /\ \E i \in 1..Len(Prediction.to_predict) :
           Val(Prediction.ret.doc_ids)[i] # Val(Prediction.primary).ids[i]

---------------------------------------------------------------------------
(* train_model(train_data, output_dir=...): where the run writes.          *)

\* train_model() called with and without an output_dir of its own.
OutputDirCalls == [output_dir : {None, Some("elsewhere")}, eval_data : {TRUE},
                   eval_metrics : {{MaxMetric}}]
\* The settings under which the second evaluation ends the run.
WithStopping(A) ==
    { [a EXCEPT !.evaluate_during_training = TRUE, !.evaluate_during_training_steps = 1,
                !.use_early_stopping = TRUE, !.save_best_model = FALSE] : a \in A }
InitOutputDir ==
    /\ TrainInit(LET A == WithCheckpoints(WithSizes({DefaultArgs}))
                 IN  A \cup WithStopping(A), NoFiles, OutputDirCalls)
    /\ BatchIdle /\ LossIdle /\ EvalIdle
SpecOutputDir == InitOutputDir /\ [][Next]_vars

Ended == pc \in {"done", "stopped"}
\* the directory the call names, args.output_dir when it names none
ChosenOutputDir == IF call.output_dir = None THEN args.output_dir ELSE Val(call.output_dir)
HoldsModel(d) == d \in DOMAIN files /\ files[d].model # None

\* C23: when train_model is given an output_dir, every model artifact of the run,
\* the interval and epoch checkpoints and the final model saved at training end, is
\* under that directory, args.output_dir being used only when none is given; the
\* final model is saved both after normal completion and after early stopping.
C23_ArtifactsUnderOutputDir ==
    Ended =>
        /\ \A d \in DOMAIN files : HoldsModel(d) => d.root = ChosenOutputDir
        /\ HoldsModel(RootDir(ChosenOutputDir))

---------------------------------------------------------------------------
(* The evaluations of a run and the history they leave.                    *)

\* Evaluation during training, with and without early stopping, on runs of one
\* batch for an optimizer step.
WithHistory ==
    { a \in WithEvaluation(WithSizes({DefaultArgs})) :
          /\ a.gradient_accumulation_steps = 1
          /\ a.evaluate_during_training_steps \in {0, MaxInterval}
          /\ a.early_stopping_delta \in {0, MaxDelta}
          /\ a.save_best_model }
InitHistory ==
    /\ TrainInit(WithHistory, NoFiles, Calls({0, MaxMetric}))
    /\ len_train_dataloader <= MaxShortLen
    /\ BatchIdle /\ LossIdle /\ EvalIdle
SpecHistory == InitHistory /\ [][Next]_vars

History == Val(training_progress_scores)
Columns == {"global_step", "train_loss", "metric"}
NonDecreasing(column) ==
    \A i, j \in 1..Len(column) : i <= j => column[i] <= column[j]

\* C24: with evaluate_during_training, after any sequence of per-step and per-epoch
\* evaluations every column of training_progress_scores has as many values as
\* evaluations were made, an evaluation appends one value to every column, and the
\* global_step column never decreases.
C24_OneRowPerEvaluation ==
    /\ [](training_progress_scores # None =>
              /\ \A c \in Columns : Len(History[c]) = run.evals
              /\ NonDecreasing(History.global_step))
    /\ [][training_progress_scores # None /\ run'.evals # run.evals =>
              /\ run'.evals = run.evals + 1
              /\ \A c \in Columns :
                     /\ Len(training_progress_scores'[1][c]) = Len(History[c]) + 1
                     /\ SubSeq(training_progress_scores'[1][c], 1, Len(History[c]))
                            = History[c]]_vars
\* a history with an evaluation of an epoch that follows one of a step, both at one
\* global_step
C24_StepThenEpoch ==
    /\ training_progress_scores # None
    /\ run.evals >= 2
    /\ Val(run.last).site = "epoch"
    /\ History.global_step[run.evals] = History.global_step[run.evals - 1]

\* the new best metric, the new patience counter and the decision to stop
Decision(r) == <<r.best, r.counter, r.stop>>
EpochsCount == args.use_early_stopping => args.early_stopping_consider_epochs
---------------------------------------------------------------------------
(* The optimizer steps of train(): accumulation boundaries, global_step,   *)
(* max_steps.                                                              *)

\* The settings of the optimizer and of the length of a run; a run that saves a
\* checkpoint at every step can be resumed from it.
WithSteps(A) ==
    { [a EXCEPT !.max_steps = ms, !.optimizer = o, !.save_steps = n,
                !.overwrite_output_dir = TRUE] :
          a \in A, ms \in 0..MaxSteps, o \in Optimizers, n \in 0..1 }
InitSteps ==
    /\ TrainInit(WithSteps(WithSizes({DefaultArgs})), NoFiles, Calls({MaxMetric}))
    /\ BatchIdle /\ LossIdle /\ EvalIdle
SpecSteps == InitSteps /\ [][NextResume]_vars

InTrain == pc \in {"epoch", "batch"}
AtBoundary == (step + 1) % args.gradient_accumulation_steps = 0
\* global_step within train(): it changes at accumulation boundaries only and by
\* +1, and is the restored value plus the optimizer steps and the scheduler steps
\* of the run
CountsOptimizerSteps ==
    /\ [](InTrain \/ Ended =>
              /\ global_step = run.start_step + run.optimizer_steps
              /\ run.scheduler_steps = run.optimizer_steps)
    /\ [][InTrain /\ global_step' # global_step =>
              /\ pc = "batch" /\ AtBoundary
              /\ global_step' = global_step + 1
              /\ run'.optimizer_steps = run.optimizer_steps + 1]_vars

\* C25 as it stands: global_step changes only at accumulation boundaries and by +1;
\* a boundary clips the gradients, steps the optimizer once, steps the scheduler
\* once, zeroes the gradients and increments global_step, in this order; global_step
\* is the restored start value plus the optimizer steps of the run.
C25_BoundaryClipsAndSteps ==
    /\ CountsOptimizerSteps
    /\ [](run.optimizer_steps > 0 =>
              run.ops = <<"clip_grad_norm_", "optimizer.step", "scheduler.step",
                          "zero_grad", "global_step += 1">>)
\* C25, amended: as above, the gradients being clipped at a boundary when the
\* optimizer is AdamW and not clipped when it is Adafactor.
C25_BoundarySteps ==
    /\ CountsOptimizerSteps
    /\ [](run.optimizer_steps > 0 =>
              run.ops = (IF args.optimizer = "AdamW" THEN <<"clip_grad_norm_">> ELSE <<>>)
                            \o <<"optimizer.step", "scheduler.step", "zero_grad",
                                 "global_step += 1">>)
\* a run resumed from a checkpoint that has made optimizer steps of its own,
\* without clipping
C25_ResumedAndStepped ==
    /\ run.resumed /\ run.start_step > 0 /\ run.optimizer_steps > 0
    /\ args.optimizer = "Adafactor"

\* C28: a fresh run that is not stopped early makes no more optimizer steps than the
\* t_total train() computes for the scheduler: with max_steps > 0 global_step never
\* exceeds max_steps, with max_steps = 0 global_step at normal completion is
\* (len(dataloader) // gradient_accumulation_steps) * num_train_epochs.
C28_StepsWithinTotal ==
    (~run.resumed /\ (InTrain \/ Ended)) =>
        /\ run.optimizer_steps <= run.t_total
        /\ args.max_steps > 0 => global_step <= args.max_steps
        /\ (args.max_steps = 0 /\ pc = "done") =>
               global_step = (len_train_dataloader \div args.gradient_accumulation_steps)
                                 * args.num_train_epochs

\* C29: every optimizer step applies the gradients of exactly
\* gradient_accumulation_steps batches of one epoch, and the gradient of every batch
\* that was back-propagated is applied by one optimizer step, whatever the length of
\* the dataloader and across the epochs.
C29_StepAppliesOneGroup ==
    /\ run.optimizer_steps > 0 =>
           /\ Len(run.applied) = args.gradient_accumulation_steps
           /\ \A i, j \in 1..Len(run.applied) : run.applied[i][1] = run.applied[j][1]
    /\ Ended => run.accumulated = <<>>

---------------------------------------------------------------------------
(* What train() does every so many optimizer steps, and the mode of the    *)
(* encoders while it trains.                                               *)

\* The intervals of logging, saving and evaluating.
WithIntervals(A) ==
    LET I == { [a EXCEPT !.logging_steps = l, !.save_steps = n] :
                   a \in A, l \in 0..MaxInterval, n \in 0..MaxInterval }
    IN  I \cup { [a EXCEPT !.evaluate_during_training = TRUE,
                           !.evaluate_during_training_steps = n,
                           !.evaluate_each_epoch = ee] :
                     a \in I, n \in 0..MaxInterval, ee \in BOOLEAN }
InitIntervals ==
    /\ TrainInit(WithIntervals(WithSizes({DefaultArgs})), NoFiles, Calls({MaxMetric}))
    /\ len_train_dataloader <= MaxShortLen
    /\ BatchIdle /\ LossIdle /\ EvalIdle
SpecIntervals == InitIntervals /\ [][Next]_vars

\* the values global_step has taken at the accumulation boundaries of the run
Reached == (run.start_step + 1)..global_step
Times(seq, v) == Cardinality({ i \in 1..Len(seq) : seq[i] = v })
Selected(interval, g) == interval > 0 /\ g % interval = 0

WithModes(A) ==
    LET T == { [a EXCEPT !.train_context_encoder = tc, !.train_query_encoder = tq] :
                   a \in A, tc \in BOOLEAN, tq \in BOOLEAN }
    IN  T \cup { [a EXCEPT !.evaluate_during_training = TRUE,
                           !.evaluate_during_training_steps = n,
                           !.evaluate_each_epoch = ee] :
                     a \in T, n \in 0..MaxInterval, ee \in BOOLEAN }
InitModes ==
    /\ TrainInit(WithModes(WithSizes({DefaultArgs})), NoFiles, Calls({MaxMetric}))
    /\ BatchIdle /\ LossIdle /\ EvalIdle
SpecModes == InitModes /\ [][Next]_vars

\* a batch is about to be forwarded
AboutToTrain ==
    pc = "batch" /\ step < len_train_dataloader /\ steps_trained_in_current_epoch = 0
\* C30: at every training step each encoder is in the mode its setting selects,
\* training mode iff train_context_encoder, train_query_encoder, also after an
\* evaluation in the middle of an epoch; an encoder that is not to be trained is
\* never in training mode during the run.
C30_EncodersInConfiguredMode ==
    /\ AboutToTrain =>
           /\ run.context_training = args.train_context_encoder
           /\ run.query_training = args.train_query_encoder
    /\ ~args.train_context_encoder => ~run.context_training
    /\ ~args.train_query_encoder => ~run.query_training

====
